---- MODULE Spec2Model ----
(***************************************************************************)
(* A model of the annotation pipeline of xLang1234/PythonBE:               *)
(*   - utils/api_utils.py   ApiKeyManager (credential rotation, cooldown)  *)
(*   - api/openrouter.py    OpenRouterAPI._make_request (retry loop)       *)
(*   - processors/sentiment.py  query_model, analyze_with_ai and           *)
(*                               process_unprocessed_content               *)
(* Time is the value of time.time() in seconds; one call of a synchronous  *)
(* method reads one instant.                                               *)
(***************************************************************************)
EXTENDS Integers, Sequences, FiniteSets, TLC

\* ------------------------------------------------------------------ bounds
\* Largest credential pool the constructor is given.
MaxPool == 3
\* Largest credential pool of the key manager of a client that runs one call at a
\* time (the cap of 10 attempts is below 2 * len from 6 keys on).
MaxClientPool == 6
\* time.time() advances in steps of TickSeconds, up to MaxNow.
TickSeconds == 60
MaxNow == 60

\* Longest "tags" list of a model's answer.
MaxTags == 2
\* Most rows of raw_content.
MaxItems == 2
\* Largest limit process_unprocessed_content is called with.
MaxLimit == 2
\* Largest limit of the call that overlaps another one.
MaxOverlapLimit == 1
\* Longest content of a completion, in tokens.
MaxContent == 6
MaxLoaded == 2
MaxCookieFiles == 3
MaxTweets == 2
MaxRequests == 3

\* ------------------------------------------------------- program constants
\* ApiKeyManager.__init__(cooldown_seconds=60)
cooldown_seconds == 60
\* min(len(api_keys) * 2, 10)
retry_cap == 10
retries_per_key == 2

\* SentimentAnalyzer.models_per_analysis
models_per_analysis == 2
\* freq_dist.most_common(10)
most_common_n == 10
\* result.get("score", 5)
default_score == 5
min_time_between_switches == 60

\* Python's None, for a key and for a reason
NoKey == 0
None == "None"

\* The concurrent _make_request coroutines that share one key manager.
Calls == {1, 2}

VARIABLES
    key_manager,   \* ApiKeyManager: [state, api_keys, current_key, rate_limited_keys]
    now,           \* time.time()
    call,          \* per coroutine of _make_request: [pc, api_key, retries, max_retries, requests, result]
    last_call,     \* history: the call of get_current_key / rotate_key made by the latest step
                   \* and its outcome (NoCall when the latest step made none), with the
                   \* kind of response that caused it
    last_mark,     \* history: the last rate-limit signal of _make_request: key the request used, key marked
    use_ai,        \* SentimentAnalyzer.use_ai: OPENROUTER_API_KEY is set
    analysis,      \* one call of analyze_with_ai: [pc, models_to_use, results, ret]
    raw_content,   \* table raw_content: row id -> [language]; the text of row id is content_of(id)
    processed_content,  \* table processed_content: the committed rows, in commit order
    run,           \* one call of process_unprocessed_content
    hist,          \* history: [ran, new_items, prev_clean] of the runs so far
    analyzer_ready,  \* SentimentAnalyzer() has been constructed
    run_b,         \* a second call of process_unprocessed_content, on a session of its own
    extract,       \* one call of extract_json_from_completion: [pc, response, ret]
    uses,          \* history, kept by the actions that count: per coroutine of
                   \* _make_request, the number of requests its call issued under each key
    scraper        \* TwitterScraperWithRotation: [state, cookie_manager, collect] and the
                   \* history fields invalidated and last

keyVars == <<key_manager, now, call, last_call, last_mark, uses>>
extraVars == <<analyzer_ready, run_b, extract>>
analyzerVars == <<use_ai, analysis, raw_content, processed_content, run, hist,
                  analyzer_ready, run_b, extract>>
nonKeyVars == <<analyzerVars, scraper>>
batchVars == <<raw_content, processed_content, run, hist>>
vars == <<key_manager, now, call, last_call, last_mark, use_ai, analysis,
          raw_content, processed_content, run, hist, analyzer_ready, run_b, extract,
          uses, scraper>>

\* ------------------------------------------------------------ ApiKeyManager

Min(a, b) == IF a <= b THEN a ELSE b

\* dict[key] = value
DictPut(d, k, v) == [x \in DOMAIN d \cup {k} |-> IF x = k THEN v ELSE d[x]]
\* del dict[key]
DictDel(d, k) == [x \in DOMAIN d \ {k} |-> d[x]]
EmptyDict == [x \in {} |-> 0]

\* (mutant) the first two elements change places
RotateSwappingHead(s) ==
    IF Len(s) < 2 THEN s ELSE <<s[2], s[1]>> \o SubSeq(s, 3, Len(s))

\* deque.rotate(-1): the head goes to the back
RotateLeft(s) == Tail(s) \o <<Head(s)>>

RECURSIVE RotateBy(_, _)
RotateBy(s, n) == IF n = 0 THEN s ELSE RotateBy(RotateLeft(s), n - 1)

\* every cyclic shift of a deque
Rotations(s) == {RotateBy(s, n) : n \in 0..(Len(s) - 1)}

\* "key in self.rate_limited_keys and time.time() < self.rate_limited_keys[key]"
InCooldown(km, k, t) ==
    k \in DOMAIN km.rate_limited_keys /\ t < km.rate_limited_keys[k]

AllInCooldown(km, t) ==
    \A i \in 1..Len(km.api_keys) : InCooldown(km, km.api_keys[i], t)

\* The manager before construction. given is history: the number of keys the
\* constructor was given or found.
NoManager ==
    [state |-> "none", api_keys |-> <<>>, current_key |-> NoKey,
     rate_limited_keys |-> EmptyDict, given |-> 0]

\* (mutant) the constructor without the test of line 30
init_manager_unchecked(n) ==
    [state |-> "ready", api_keys |-> [i \in 1..n |-> i],
     current_key |-> IF n = 0 THEN NoKey ELSE 1,
     rate_limited_keys |-> EmptyDict, given |-> n]

\* ApiKeyManager.__init__ with a list of n keys (1..n): raises ValueError when
\* the list is empty.
init_manager(n) ==
    IF n = 0
    THEN [NoManager EXCEPT !.state = "ValueError"]
    ELSE [state |-> "ready", api_keys |-> [i \in 1..n |-> i], current_key |-> 1,
          rate_limited_keys |-> EmptyDict, given |-> n]

\* The environment as _load_keys_from_env reads it: whether PREFIX is set to a
\* non-empty value, and the indices i for which PREFIX_i is.
Environments ==
    {[main |-> m, indexed |-> s] : m \in BOOLEAN, s \in SUBSET (1..(MaxPool - 1))}

RECURSIVE indexed_keys(_, _)
\* the loop of lines 47-54: PREFIX_1, PREFIX_2, ... up to the first that is not set
indexed_keys(env, i) == IF i \in env.indexed THEN 1 + indexed_keys(env, i + 1) ELSE 0

\* _load_keys_from_env, lines 37-56: the number of keys it finds
load_keys_from_env(env) == (IF env.main THEN 1 ELSE 0) + indexed_keys(env, 1)

\* (mutant) the entry is the time of the mark, without the cooldown window
mark_rate_limited_no_window(km, key, t) ==
    [km EXCEPT !.rate_limited_keys = DictPut(@, key, t)]

\* mark_rate_limited, lines 108-116
mark_rate_limited(km, key, t) ==
    [km EXCEPT !.rate_limited_keys = DictPut(@, key, t + cooldown_seconds)]

\* (mutant) a key with an entry in rate_limited_keys is skipped, whether or not
\* its cooldown is over
RECURSIVE rotate_advance_entry_only(_, _, _)
rotate_advance_entry_only(km, t, hop) ==
    LET keys == RotateLeft(km.api_keys)
        km1 == [km EXCEPT !.api_keys = keys, !.current_key = Head(keys)]
    IN  IF km1.current_key \in DOMAIN km1.rate_limited_keys
        THEN IF hop >= Len(keys)
             THEN [raised |-> TRUE, km |-> km1, ret |-> NoKey, advances |-> hop]
             ELSE rotate_advance_entry_only(km1, t, hop + 1)
        ELSE [raised |-> FALSE, km |-> km1, ret |-> km1.current_key, advances |-> hop]

\* rotate_key, lines 91-106: advance, and recurse while the new key is cooling
\* down. hop counts the advances of this call; after len(api_keys) advances that
\* all landed on a cooling key every key has been seen cooling, nothing in the
\* recursion changes that, and the recursion does not end: the interpreter ends it
\* with RecursionError.
RECURSIVE rotate_advance(_, _, _)
rotate_advance(km, t, hop) ==
    LET keys == RotateLeft(km.api_keys)
        km1 == [km EXCEPT !.api_keys = keys, !.current_key = Head(keys)]
    IN  IF InCooldown(km1, km1.current_key, t)
        THEN IF hop >= Len(keys)
             THEN [raised |-> TRUE, km |-> km1, ret |-> NoKey, advances |-> hop]
             ELSE rotate_advance(km1, t, hop + 1)
        ELSE [raised |-> FALSE,
              km |-> [km1 EXCEPT !.rate_limited_keys = DictDel(@, km1.current_key)],
              ret |-> km1.current_key,
              advances |-> hop]

\* (mutant) the single key keeps its cooldown entry
rotate_single_keeps_cooldown(km) ==
    [raised |-> FALSE, km |-> km, ret |-> km.current_key, advances |-> 0]

\* rotate_key with a single key, lines 85-89
rotate_single(km) ==
    [raised |-> FALSE,
     km |-> [km EXCEPT !.rate_limited_keys = DictDel(@, km.current_key)],
     ret |-> km.current_key,
     advances |-> 0]

\* rotate_key(reason): the set of its outcomes [raised, km, ret, advances],
\* advances being the number of times the call advanced the deque. When the
\* recursion is ended by RecursionError the deque is left at a shift that depends
\* on the depth of the interpreter's stack: any shift, after more advances than
\* the pool has keys.
rotate_key(km, reason, t) ==
    LET km0 == IF reason = "rate_limit"
               THEN mark_rate_limited(km, km.current_key, t) ELSE km
    IN  IF Len(km0.api_keys) = 1
        THEN {rotate_single(km0)}
        ELSE LET r == rotate_advance(km0, t, 1)
             IN  IF r.raised
                 THEN {[raised |-> TRUE, ret |-> NoKey,
                        km |-> [km0 EXCEPT !.api_keys = p, !.current_key = Head(p)],
                        advances |-> Len(km0.api_keys) + 1]
                       : p \in Rotations(km0.api_keys)}
                 ELSE {r}

\* (mutant) the current key is returned without the cooldown check
get_current_key_unchecked(km, t) ==
    {[raised |-> FALSE, km |-> km, ret |-> km.current_key, advances |-> 0]}

\* get_current_key: the set of its outcomes
get_current_key(km, t) ==
    IF InCooldown(km, km.current_key, t)
    THEN rotate_key(km, None, t)
    ELSE {[raised |-> FALSE, km |-> km, ret |-> km.current_key, advances |-> 0]}

\* The call, whose outcome is o, returned a key that had an entry in
\* rate_limited_keys before the call and has none after it (lines 87-88, 103).
Cleared(before, o) ==
    /\ ~o.raised
    /\ o.ret \in DOMAIN before.rate_limited_keys
    /\ o.ret \notin DOMAIN o.km.rate_limited_keys

\* The record kept of a call of the manager.
CallRecord(op, reason, before, o) ==
    [op |-> op, reason |-> reason, raised |-> o.raised, ret |-> o.ret,
     keys_before |-> before.api_keys, cause |-> "none", advances |-> o.advances,
     cleared |-> Cleared(before, o)]

NoCall ==
    [op |-> "none", reason |-> None, raised |-> FALSE, ret |-> NoKey,
     keys_before |-> <<>>, cause |-> "none", advances |-> 0, cleared |-> FALSE]

NoMark == [issued |-> NoKey, marked |-> NoKey]

IdleCall ==
    [pc |-> "idle", api_key |-> NoKey, retries |-> 0, max_retries |-> 0,
     requests |-> 0, result |-> None]

\* ApiKeyManager(api_keys=[...])
Construct ==
    /\ key_manager.state = "none"
    /\ \E n \in 0..MaxPool : key_manager' = init_manager(n)
    /\ UNCHANGED <<now, call, last_call, last_mark, nonKeyVars, uses>>

\* ApiKeyManager(): api_keys is None, the keys come from the environment
ConstructFromEnv ==
    /\ key_manager.state = "none"
    /\ \E env \in Environments : key_manager' = init_manager(load_keys_from_env(env))
    /\ UNCHANGED <<now, call, last_call, last_mark, nonKeyVars, uses>>

\* time passes
Tick ==
    /\ now + TickSeconds <= MaxNow
    /\ now' = now + TickSeconds
    /\ last_call' = NoCall
    /\ UNCHANGED <<key_manager, call, last_mark, nonKeyVars, uses>>

\* ---- the manager called directly

GetCurrentKey ==
    /\ key_manager.state = "ready"
    /\ \E o \in get_current_key(key_manager, now) :
          /\ key_manager' = o.km
          /\ last_call' = CallRecord("get_current_key", None, key_manager, o)
    /\ UNCHANGED <<now, call, last_mark, nonKeyVars, uses>>

RotateKey ==
    /\ key_manager.state = "ready"
    /\ \E reason \in {None, "rate_limit"} :
       \E o \in rotate_key(key_manager, reason, now) :
          /\ key_manager' = o.km
          /\ last_call' = CallRecord("rotate_key", reason, key_manager, o)
    /\ UNCHANGED <<now, call, last_mark, nonKeyVars, uses>>

MarkRateLimited ==
    /\ key_manager.state = "ready"
    /\ \E i \in 1..Len(key_manager.api_keys) :
          key_manager' = mark_rate_limited(key_manager, key_manager.api_keys[i], now)
    /\ last_call' = NoCall
    /\ UNCHANGED <<now, call, last_mark, nonKeyVars, uses>>

\* --------------------------------------------- OpenRouterAPI._make_request

\* What session.post / response.json() gives one attempt: an HTTP status with a
\* body whose 'code' field is 429 or not, or an exception.
Responses ==
    {[kind |-> "http", status |-> s, code |-> c] : s \in {200, 429, 500}, c \in {0, 429}}
    \cup {[kind |-> "exception", status |-> 0, code |-> 0]}

\* The kinds of response lines 48-70 tell apart.
response_kind(resp) ==
    IF resp.kind = "exception" THEN "exception"
    ELSE IF resp.status = 429 THEN "rate_limit_status"
    ELSE IF resp.code = 429 THEN "rate_limit_body"
    ELSE IF resp.status = 200 THEN "success"
    ELSE "error_status"

\* (mutant) only the status code is looked at
is_rate_limit_status_only(resp) == resp.status = 429

\* line 53
is_rate_limit(resp) == resp.status = 429 \/ resp.code = 429

\* (mutant) the budget without its cap
max_retries_uncapped(km) == Len(km.api_keys) * retries_per_key

\* line 36
max_retries_of(km) == Min(Len(km.api_keys) * retries_per_key, retry_cap)

WithBefore(o, reason, before) ==
    [raised |-> o.raised, km |-> o.km, ret |-> o.ret, reason |-> reason,
     keys_before |-> before.api_keys, advances |-> o.advances,
     cleared |-> Cleared(before, o)]

\* (mutant) the handler rotates with reason="rate_limit"
except_handler_marking(km, t) ==
    {WithBefore(o, None, km) : o \in rotate_key(km, "rate_limit", t)}

\* The handler of line 67-70: rotate_key(); an exception of it escapes the call.
except_handler(km, t) ==
    {WithBefore(o, None, km) : o \in rotate_key(km, None, t)}

\* rotate_key(reason) called inside the try block (lines 55 and 64): an
\* exception of it is caught at line 67 and the handler rotates again.
rotate_in_try(km, reason, t) ==
    UNION {IF o.raised THEN except_handler(o.km, t) ELSE {WithBefore(o, reason, km)}
           : o \in rotate_key(km, reason, t)}

\* (mutant) a 200 response is returned after the key is rotated
handle_response_rotating(km, resp, t) ==
    IF resp.kind = "exception"
    THEN {o @@ [returned |-> FALSE] : o \in except_handler(km, t)}
    ELSE IF is_rate_limit(resp)
    THEN {o @@ [returned |-> FALSE] : o \in rotate_in_try(km, "rate_limit", t)}
    ELSE IF resp.status = 200
    THEN {[returned |-> TRUE, raised |-> FALSE, km |-> o.km, ret |-> NoKey,
           reason |-> None, keys_before |-> <<>>, advances |-> 0, cleared |-> FALSE]
          : o \in rotate_key(km, None, t)}
    ELSE {o @@ [returned |-> FALSE] : o \in rotate_in_try(km, None, t)}

\* Lines 47-70 for one response: the set of [returned, raised, km, ...].
handle_response(km, resp, t) ==
    IF resp.kind = "exception"
    THEN {o @@ [returned |-> FALSE] : o \in except_handler(km, t)}
    ELSE IF is_rate_limit(resp)
    THEN {o @@ [returned |-> FALSE] : o \in rotate_in_try(km, "rate_limit", t)}
    ELSE IF resp.status = 200
    THEN {[returned |-> TRUE, raised |-> FALSE, km |-> km, ret |-> NoKey,
           reason |-> None, keys_before |-> <<>>, advances |-> 0, cleared |-> FALSE]}
    ELSE {o @@ [returned |-> FALSE] : o \in rotate_in_try(km, None, t)}

\* The head of the while loop, lines 39-48, for a coroutine whose record is cr:
\* return None when the budget is used up, else get the key and post.
Iterate(c, cr) ==
    IF cr.retries < cr.max_retries
    THEN \E o \in get_current_key(key_manager, now) :
            /\ key_manager' = o.km
            /\ last_call' = CallRecord("get_current_key", None, key_manager, o)
            /\ call' = [call EXCEPT ![c] =
                          IF o.raised
                          THEN [cr EXCEPT !.pc = "raised"]
                          ELSE [cr EXCEPT !.pc = "await", !.api_key = o.ret,
                                          !.requests = @ + 1]]
    ELSE /\ call' = [call EXCEPT ![c] = [cr EXCEPT !.pc = "done", !.result = None]]
         /\ last_call' = NoCall
         /\ UNCHANGED key_manager

\* OpenRouterAPI over a key manager of n keys
ConstructClient ==
    /\ key_manager.state = "none"
    /\ \E n \in 1..MaxClientPool : key_manager' = init_manager(n)
    /\ UNCHANGED <<now, call, last_call, last_mark, nonKeyVars, uses>>

UsesOf(d, key) == IF key \in DOMAIN d THEN d[key] ELSE 0

\* The count of the requests per key, for a step of coroutine c: a step that
\* ends at the await of line 48 has issued a request under call'[c].api_key.
CountRequest(c) ==
    uses' = IF call'[c].pc = "await"
            THEN [uses EXCEPT ![c] = DictPut(@, call'[c].api_key,
                                             UsesOf(@, call'[c].api_key) + 1)]
            ELSE uses

\* lines 36-48, up to the first suspension
StartRequest(c) ==
    /\ key_manager.state = "ready"
    /\ call[c].pc = "idle"
    /\ Iterate(c, [IdleCall EXCEPT !.max_retries = max_retries_of(key_manager)])
    /\ UNCHANGED <<now, last_mark, nonKeyVars>>

\* _make_request is called
Start(c) == StartRequest(c) /\ UNCHANGED uses

\* _make_request is called, and its requests are counted
StartCounted(c) == StartRequest(c) /\ CountRequest(c)

\* the response of the request in flight arrives: lines 49-70
Respond(c) ==
    /\ call[c].pc = "await"
    /\ \E resp \in Responses :
       \E o \in handle_response(key_manager, resp, now) :
          /\ key_manager' = o.km
          /\ last_call' = IF o.returned
                          THEN [NoCall EXCEPT !.cause = response_kind(resp)]
                          ELSE [op |-> "rotate_key", reason |-> o.reason,
                                raised |-> o.raised, ret |-> o.ret,
                                keys_before |-> o.keys_before,
                                cause |-> response_kind(resp),
                                advances |-> o.advances,
                                cleared |-> o.cleared]
          /\ last_mark' = IF resp.kind = "http" /\ is_rate_limit(resp)
                          THEN [issued |-> call[c].api_key,
                                marked |-> key_manager.current_key]
                          ELSE last_mark
          /\ call' = [call EXCEPT ![c] =
                        IF o.returned THEN [@ EXCEPT !.pc = "done", !.result = "body"]
                        ELSE IF o.raised THEN [@ EXCEPT !.pc = "raised"]
                        ELSE [@ EXCEPT !.pc = "loop", !.retries = @ + 1]]
    /\ UNCHANGED <<now, nonKeyVars, uses>>

\* lines 39-48 after a failed attempt
NextRequest(c) ==
    /\ call[c].pc = "loop"
    /\ Iterate(c, call[c])
    /\ UNCHANGED <<now, last_mark, nonKeyVars>>

\* the loop goes round
Continue(c) == NextRequest(c) /\ UNCHANGED uses

\* the loop goes round, and its requests are counted
ContinueCounted(c) == NextRequest(c) /\ CountRequest(c)

\* the caller has the outcome
EndCall(c) ==
    /\ call[c].pc \in {"done", "raised"}
    /\ call' = [call EXCEPT ![c] = IdleCall]
    /\ last_call' = NoCall
    /\ UNCHANGED <<key_manager, now, last_mark, nonKeyVars>>

\* the caller has the outcome; the coroutine is free for another call
Finish(c) == EndCall(c) /\ UNCHANGED uses

\* the caller has the outcome, and the count of the call is dropped
FinishCounted(c) == EndCall(c) /\ uses' = [uses EXCEPT ![c] = EmptyDict]

\* ------------------------------------------- SentimentAnalyzer.query_model

\* SentimentAnalyzer.models
models ==
    <<"deepseek/deepseek-chat:free", "anthropic/claude-3-haiku:free",
      "mistralai/mistral-7b-instruct:free", "meta-llama/llama-3-8b-instruct:free">>

Tags == {"btc", "eth"}

\* every list of at most n tags
TagLists(n) == UNION {[1..k -> Tags] : k \in 0..n}

\* The "score" and the "tags" of a model's JSON object. A score is an integer,
\* absent, or not a number; tags are a list, absent, or null.
ScoreFields ==
    {[type |-> "int", v |-> v] : v \in {0, 3, 8, 15}}
    \cup {[type |-> "absent", v |-> 0], [type |-> "str", v |-> 0]}
TagFields ==
    {[type |-> "list", v |-> l] : l \in TagLists(MaxTags)}
    \cup {[type |-> "absent", v |-> <<>>], [type |-> "null", v |-> <<>>]}

NoFields == [score |-> [type |-> "absent", v |-> 0], tags |-> [type |-> "absent", v |-> <<>>]]

\* What one session.post of query_model comes to: an exception (transport, a
\* body without choices), a status other than 200, a content that is not JSON,
\* JSON that is no object, or a JSON object.
Replies ==
    {[kind |-> k] @@ NoFields : k \in {"exception", "status_500", "not_json", "json_non_object"}}
    \cup {[kind |-> "json_object", score |-> sc, tags |-> tg] : sc \in ScoreFields, tg \in TagFields}

\* Scores are kept in twentieths: ((score / 10) * 2) - 1, times 20.
normalized_score(score) == IF score = 0 THEN 0 ELSE 4 * score - 20

NoScore == [none |-> TRUE, v |-> 0]

FailedResult(model_name, status) ==
    [model |-> model_name, score |-> NoScore, tags |-> [type |-> "list", v |-> <<>>],
     status |-> status]

\* (mutant) a JSON object without "score" or without "tags" is a parse error
query_model_discarding(model_name, reply) ==
    CASE reply.kind = "exception" -> FailedResult(model_name, "exception")
      [] reply.kind = "status_500" -> FailedResult(model_name, "api_error")
      [] reply.kind = "not_json" -> FailedResult(model_name, "parse_error")
      [] reply.kind = "json_non_object" -> FailedResult(model_name, "exception")
      [] OTHER ->
           IF reply.score.type = "str"
           THEN FailedResult(model_name, "exception")
           ELSE IF reply.score.type = "absent" \/ reply.tags.type = "absent"
           THEN FailedResult(model_name, "parse_error")
           ELSE [model |-> model_name,
                 score |-> [none |-> FALSE, v |-> normalized_score(reply.score.v)],
                 tags |-> reply.tags,
                 status |-> "success"]

\* query_model, lines 134-181: the result dict for one reply. result.get on JSON
\* that is no object, and score / 10 on a score that is no number, raise inside the
\* outer try and come out as status "exception".
query_model(model_name, reply) ==
    CASE reply.kind = "exception" -> FailedResult(model_name, "exception")
      [] reply.kind = "status_500" -> FailedResult(model_name, "api_error")
      [] reply.kind = "not_json" -> FailedResult(model_name, "parse_error")
      [] reply.kind = "json_non_object" -> FailedResult(model_name, "exception")
      [] OTHER ->
           IF reply.score.type = "str"
           THEN FailedResult(model_name, "exception")
           ELSE [model |-> model_name,
                 score |-> [none |-> FALSE,
                            v |-> normalized_score(IF reply.score.type = "absent"
                                                   THEN default_score ELSE reply.score.v)],
                 tags |-> IF reply.tags.type = "absent"
                          THEN [type |-> "list", v |-> <<>>] ELSE reply.tags,
                 status |-> "success"]

\* --------------------------------------- SentimentAnalyzer.analyze_with_ai

RECURSIVE InsertSorted(_, _)
InsertSorted(s, x) ==
    IF s = <<>> THEN <<x>>
    ELSE IF x <= Head(s) THEN <<x>> \o s
    ELSE <<Head(s)>> \o InsertSorted(Tail(s), x)

RECURSIVE Sorted(_)
Sorted(s) == IF s = <<>> THEN <<>> ELSE InsertSorted(Sorted(Tail(s)), Head(s))

\* statistics.median: the middle of the sorted data, or the mean of the two
\* middle values
median(data) ==
    LET d == Sorted(data)
        n == Len(d)
    IN  IF n % 2 = 1 THEN d[(n + 1) \div 2]
        ELSE (d[n \div 2] + d[n \div 2 + 1]) \div 2

RECURSIVE ExtendAll(_)
\* all_tags.extend(r["tags"]) over the valid results, in order
ExtendAll(rs) == IF rs = <<>> THEN <<>> ELSE Head(rs).tags.v \o ExtendAll(Tail(rs))

\* tag_counts[tag]
TagCount(all_tags, tag) == Cardinality({i \in DOMAIN all_tags : all_tags[i] = tag})

RECURSIVE FirstSeen(_, _)
\* the keys of tag_counts, in insertion order
FirstSeen(all_tags, seen) ==
    IF all_tags = <<>> THEN <<>>
    ELSE IF Head(all_tags) \in seen THEN FirstSeen(Tail(all_tags), seen)
    ELSE <<Head(all_tags)>> \o FirstSeen(Tail(all_tags), seen \cup {Head(all_tags)})

RECURSIVE SeqMapScore(_)
SeqMapScore(rs) == IF rs = <<>> THEN <<>> ELSE <<Head(rs).score.v>> \o SeqMapScore(Tail(rs))

\* "return None, []"
Fallback == [raised |-> FALSE, sentiment |-> NoScore, tags |-> <<>>]

\* Lines 206-230 on the gathered results: [raised, sentiment, tags].
\* all_tags.extend(None) raises TypeError for a "tags" of null.
aggregate(results) ==
    LET IsValid(r) == ~r.score.none
        valid_results == SelectSeq(results, IsValid)
    IN  IF valid_results = <<>> THEN Fallback
        ELSE IF \E i \in DOMAIN valid_results : valid_results[i].tags.type = "null"
        THEN [raised |-> TRUE, sentiment |-> NoScore, tags |-> <<>>]
        ELSE LET scores == SeqMapScore(valid_results)
                 all_tags == ExtendAll(valid_results)
                 threshold == IF Len(valid_results) = 1 THEN 1 ELSE 2
                 Kept(tag) == TagCount(all_tags, tag) >= threshold
             IN  [raised |-> FALSE,
                  sentiment |-> [none |-> FALSE, v |-> median(scores)],
                  tags |-> SelectSeq(FirstSeen(all_tags, {}), Kept)]

\* (mutant) analyze_with_ai without the try/except of lines 196 and 232-234
guard_aggregate_uncaught(results) == aggregate(results)

\* The try/except around the aggregation, lines 196 and 232-234.
guard_aggregate(results) ==
    LET r == aggregate(results) IN IF r.raised THEN Fallback ELSE r

\* SentimentAnalyzer(), lines 35-72: use_ai is whether OPENROUTER_API_KEY is set
ConstructAnalyzer ==
    /\ ~analyzer_ready
    /\ analyzer_ready' = TRUE
    /\ use_ai' \in BOOLEAN
    /\ UNCHANGED <<keyVars, scraper, analysis, batchVars, run_b, extract>>

\* random.sample(self.models, min(self.models_per_analysis, len(self.models))):
\* every list of that many distinct models
ModelSamples ==
    LET k == Min(models_per_analysis, Len(models))
    IN  {s \in [1..k -> 1..Len(models)] : \A i, j \in 1..k : i # j => s[i] # s[j]}

PendingResult == FailedResult("", "pending")

\* The reply of a query that has not finished.
NoReply == [kind |-> "pending"] @@ NoFields

\* replies and order are history: the reply each query_model got, and the
\* order in which the queries finished.
IdleAnalysis ==
    [pc |-> "idle", models_to_use |-> <<>>, results |-> <<>>, ret |-> Fallback,
     replies |-> <<>>, order |-> <<>>]

\* (mutant) the gather is left as soon as one query has succeeded
gather_returns_on_first_success(results) ==
    \/ \E i \in DOMAIN results : results[i].status = "success"
    \/ \A i \in DOMAIN results : results[i].status # "pending"

\* "await asyncio.gather(*tasks)", line 203: query_model turns every exception
\* into a result, so the gather returns when every query has returned.
gather_returns(results) ==
    \A i \in DOMAIN results : results[i].status # "pending"

\* (mutant) the results in the order in which the queries finished
gathered_as_completed(results, order) ==
    [k \in DOMAIN order |-> results[order[k]]]

\* The list asyncio.gather returns, line 203: the results in the order of the
\* tasks, whatever the order in which they finished.
gathered(results, order) == results

\* analyze_with_ai is called, lines 185-203: without a key it returns at once,
\* else it picks the models and gathers one query_model per model.
AnalyzeStart ==
    /\ analyzer_ready
    /\ analysis.pc = "idle"
    /\ IF ~use_ai
       THEN analysis' = [analysis EXCEPT !.pc = "done", !.ret = Fallback]
       ELSE \E s \in ModelSamples :
               analysis' = [pc |-> "gather",
                            models_to_use |-> [i \in DOMAIN s |-> models[s[i]]],
                            results |-> [i \in DOMAIN s |-> PendingResult],
                            ret |-> Fallback,
                            replies |-> [i \in DOMAIN s |-> NoReply],
                            order |-> <<>>]
    /\ UNCHANGED <<keyVars, scraper, use_ai, batchVars, extraVars>>

\* one of the gathered query_model coroutines finishes
QueryDone(i) ==
    /\ analysis.pc = "gather"
    /\ i \in DOMAIN analysis.results
    /\ analysis.results[i].status = "pending"
    /\ \E reply \in Replies :
          analysis' = [analysis EXCEPT
                          !.results[i] = query_model(analysis.models_to_use[i], reply),
                          !.replies[i] = reply,
                          !.order = Append(@, i)]
    /\ UNCHANGED <<keyVars, scraper, use_ai, batchVars, extraVars>>

\* asyncio.gather returns: lines 205-234
Aggregate ==
    /\ analysis.pc = "gather"
    /\ gather_returns(analysis.results)
    /\ analysis' = [analysis EXCEPT
                       !.pc = "done",
                       !.ret = guard_aggregate(gathered(analysis.results, analysis.order))]
    /\ UNCHANGED <<keyVars, scraper, use_ai, batchVars, extraVars>>

\* the caller has the result
AnalyzeReturn ==
    /\ analysis.pc = "done"
    /\ analysis' = IdleAnalysis
    /\ UNCHANGED <<keyVars, scraper, use_ai, batchVars, extraVars>>


\* --------------------------- SentimentAnalyzer.process_unprocessed_content

\* RawContent.language: 'en', NULL, 'unknown', or another language
Languages == {"en", "NULL", "unknown", "fr"}

\* The keys of self.crypto_keywords, lines 36-47, in the order of the dict.
crypto_keywords ==
    <<"bitcoin", "ethereum", "binance", "coinbase", "xrp", "solana", "cardano",
      "dogecoin", "defi", "nft">>

\* The keys of category_keywords, lines 295-303, in the order of the dict.
category_keywords ==
    <<"market", "technology", "regulation", "security", "adoption", "defi", "nft">>

\* The texts of the rows, as TextBlob and the word lists see them: polarity in
\* twentieths, the counts of positive_words and negative_words, the number of
\* distinct words longer than two letters that are no stop words, the entities
\* of crypto_keywords of which the text contains a keyword, and the categories
\* of category_keywords of which it does. The first is a tweet that matches
\* nothing, the second one that names seven coins and all topics, the third
\* one that matches nothing but a keyword of the entity nft ("opensea").
Texts ==
    <<[polarity |-> 10, positive |-> 0, negative |-> 0, words |-> 1,
       mentions |-> {}, topics |-> {}],
      [polarity |-> -16, positive |-> 0, negative |-> 3, words |-> 12,
       mentions |-> {"bitcoin", "ethereum", "binance", "coinbase", "solana",
                     "cardano", "dogecoin", "defi", "nft"},
       topics |-> {"market", "technology", "regulation", "security", "adoption",
                   "defi", "nft"}],
      [polarity |-> 0, positive |-> 1, negative |-> 0, words |-> 3,
       mentions |-> {"nft"}, topics |-> {}]>>

content_of(id) == Texts[((id - 1) % Len(Texts)) + 1]

\* RawContent.engagement_metrics of the rows: NULL for a row another writer
\* added, the dictionary save_tweet formats for a tweet.
EngagementMetrics ==
    <<[given |-> FALSE, likes |-> 0, retweets |-> 0, replies |-> 0, quotes |-> 0],
      [given |-> TRUE, likes |-> 120, retweets |-> 40, replies |-> 10, quotes |-> 5],
      [given |-> TRUE, likes |-> 900, retweets |-> 300, replies |-> 50, quotes |-> 20]>>

engagement_metrics_of(id) == EngagementMetrics[((id - 1) % Len(EngagementMetrics)) + 1]

Abs(x) == IF x < 0 THEN -x ELSE x

\* calculate_impact_score, lines 260-283, for a sentiment in twentieths: the
\* impact in hundred-thousandths. engagement_reach is kept in thousandths.
calculate_impact_score(sentiment_score, engagement_metrics) ==
    IF ~engagement_metrics.given
    THEN Abs(sentiment_score) * 2500
    ELSE LET engagement_reach == 10 * engagement_metrics.likes
                                   + 20 * engagement_metrics.retweets
                                   + 15 * engagement_metrics.replies
                                   + 18 * engagement_metrics.quotes
             engagement_factor == Min(5000, engagement_reach)
             impact == Abs(sentiment_score) * (1000 + engagement_factor)
         IN  Min(100000, impact)

Max(a, b) == IF a >= b THEN a ELSE b

\* analyze_sentiment, lines 88-108, in twentieths: 0.1 per word is 2
analyze_sentiment(text) ==
    Max(-20, Min(20, text.polarity + (text.positive - text.negative) * 2))

\* extract_keywords, lines 236-247: the most_common_n most frequent words, as
\* their ranks
extract_keywords(text) == [i \in 1..Min(most_common_n, text.words) |-> i]

\* extract_entities_mentioned, lines 249-258
extract_entities_mentioned(text) ==
    LET Mentioned(entity) == entity \in text.mentions
    IN  SelectSeq(crypto_keywords, Mentioned)

\* (mutant) categorize_content without the default of line 314
categorize_content_no_default(text, entities_mentioned, ai_tags) ==
    IF ai_tags # <<>> THEN ai_tags
    ELSE LET Matches(category) == category \in text.topics
             categories == SelectSeq(category_keywords, Matches)
             Added(entity) ==
                 /\ \A i \in DOMAIN categories : categories[i] # entity
                 /\ entity \notin {"defi", "nft"}
         IN  categories \o SelectSeq(entities_mentioned, Added)

\* categorize_content, lines 285-314
categorize_content(text, entities_mentioned, ai_tags) ==
    IF ai_tags # <<>> THEN ai_tags
    ELSE LET Matches(category) == category \in text.topics
             categories == SelectSeq(category_keywords, Matches)
             Added(entity) ==
                 /\ \A i \in DOMAIN categories : categories[i] # entity
                 /\ entity \notin {"defi", "nft"}
             all == categories \o SelectSeq(entities_mentioned, Added)
         IN  IF all # <<>> THEN all ELSE <<"general">>

HasProcessed(processed, id) ==
    \E k \in DOMAIN processed : processed[k].raw_content_id = id

\* (mutant) the row keeps no reference to the raw row it was made from
build_processed_detached(r, k) ==
    [raw_content_id |-> 0,
     sentiment_score |-> analyze_sentiment(content_of(r.content_items[k])),
     impact_score |-> 0]

\* (mutant) the query without "ProcessedContent.id == None"
unprocessed_without_antijoin(raw, processed) ==
    {id \in DOMAIN raw : raw[id].language \in {"en", "NULL", "unknown"}}

\* (mutant) the query without the test of RawContent.language
unprocessed_any_language(raw, processed) ==
    {id \in DOMAIN raw : ~HasProcessed(processed, id)}

\* The rows the query of lines 321-327 selects, before the limit.
unprocessed_rows(raw, processed) ==
    {id \in DOMAIN raw :
        /\ ~HasProcessed(processed, id)
        /\ raw[id].language \in {"en", "NULL", "unknown"}}

\* .limit(limit).all(): the query has no ORDER BY, so any min(limit, count) of
\* the rows, in any order
Fetches(rows, limit) ==
    LET n == Min(limit, Cardinality(rows))
    IN  {f \in [1..n -> rows] : \A i, j \in 1..n : i # j => f[i] # f[j]}

\* The replies the model queries of a batch get.
BatchReplies ==
    {r \in Replies :
        \/ r.kind \in {"exception", "not_json"}
        \/ /\ r.kind = "json_object"
           /\ r.score \in {[type |-> "int", v |-> 8], [type |-> "int", v |-> 0]}
           /\ r.tags \in {[type |-> "list", v |-> <<"btc">>], [type |-> "null", v |-> <<>>]}}

\* The replies of a batch whose models answer with any score: an exception, or
\* a JSON object with one of the scores of ScoreFields and one tag.
ScoreReplies ==
    {r \in Replies :
        \/ r.kind = "exception"
        \/ /\ r.kind = "json_object"
           /\ r.score.type \in {"int", "absent"}
           /\ r.tags = [type |-> "list", v |-> <<"btc">>]}

CountValid(results) ==
    Cardinality({i \in DOMAIN results : results[i].status = "success"})

\* Lines 113-114 and 147: the model rated the tweet 0, "not crypto-related".
rated_not_crypto(reply) ==
    /\ query_model(models[1], reply).status = "success"
    /\ reply.score = [type |-> "int", v |-> 0]

\* What analyze_with_ai returns for one row, with the number of its model
\* queries that succeeded and whether all of those rated the tweet 0.
AnalysisOutcomesOf(replies) ==
    {[valid |-> CountValid(<<query_model(models[1], r1), query_model(models[2], r2)>>),
      ret |-> guard_aggregate(<<query_model(models[1], r1), query_model(models[2], r2)>>),
      not_crypto |->
          /\ \E r \in {r1, r2} : query_model(models[1], r).status = "success"
          /\ \A r \in {r1, r2} :
                query_model(models[1], r).status = "success" => rated_not_crypto(r)]
     : r1 \in replies, r2 \in replies}

AnalysisOutcomes == AnalysisOutcomesOf(BatchReplies)

ScoreOutcomes == AnalysisOutcomesOf(ScoreReplies)

PendingOutcome ==
    [valid |-> 0, ret |-> [raised |-> FALSE, sentiment |-> NoScore, tags |-> <<"pending">>],
     not_crypto |-> FALSE]
NoAiOutcome == [valid |-> 0, ret |-> Fallback, not_crypto |-> FALSE]

IdleRun ==
    [pc |-> "idle", limit |-> 0, content_items |-> <<>>, ai_results |-> <<>>, i |-> 1,
     processed_count |-> 0, returned |-> 0, persisted |-> 0, failed |-> 0,
     took_all |-> FALSE, rerun |-> FALSE, prev_clean |-> FALSE, outcomes |-> <<>>]

\* Lines 356-385: the ProcessedContent row of item number k of the run.
build_processed(r, k) ==
    LET id == r.content_items[k]
        ai == r.ai_results[k].ret
        entities == extract_entities_mentioned(content_of(id))
        sentiment_score == IF ai.sentiment.none THEN analyze_sentiment(content_of(id))
                           ELSE ai.sentiment.v
    IN  [raw_content_id |-> id,
         sentiment_score |-> sentiment_score,
         impact_score |-> calculate_impact_score(sentiment_score,
                                                 engagement_metrics_of(id)),
         categories |-> categorize_content(content_of(id), entities, ai.tags),
         keywords |-> extract_keywords(content_of(id)),
         entities_mentioned |-> entities]

\* The collector saves a tweet (save_tweet), or another writer adds a row.
Collect ==
    /\ Len(raw_content) < MaxItems
    /\ \E lang \in Languages : raw_content' = Append(raw_content, [language |-> lang])
    /\ hist' = [hist EXCEPT !.new_items = TRUE]
    /\ UNCHANGED <<keyVars, scraper, use_ai, analysis, extraVars, processed_content, run>>

\* Lines 318-350 for a call whose record starts as started: the query raises
\* (outer except, return 0), or it gives the rows; with use_ai the analyses of
\* all rows are gathered, without it every row gets (None, []).
fetch_unprocessed(started, limit) ==
    LET rows == unprocessed_rows(raw_content, processed_content)
    IN  {[started EXCEPT !.limit = limit, !.pc = "returned", !.returned = 0]}
        \cup
        {[started EXCEPT
            !.limit = limit,
            !.pc = IF use_ai /\ f # <<>> THEN "gather" ELSE "persist",
            !.content_items = f,
            !.took_all = (Len(f) = Cardinality(rows)),
            !.ai_results = [k \in DOMAIN f |->
                              IF use_ai THEN PendingOutcome ELSE NoAiOutcome]]
         : f \in Fetches(rows, limit)}

\* What coroutine number k of the gather of r comes to when its analysis has
\* outcome o: task number k is analyze_with_ai(content.content) of item number
\* k (lines 338-339), so o is the analysis of the text of that item.
AnalysisOf(r, k, o) == o @@ [item |-> r.content_items[k]]

\* (mutant) the results are taken in the order the analyses finish, as
\* asyncio.as_completed gives them
analysis_done_as_completed(r, k, o) ==
    LET slot == CHOOSE j \in DOMAIN r.ai_results :
                    /\ r.ai_results[j] = PendingOutcome
                    /\ \A h \in 1..(j - 1) : r.ai_results[h] # PendingOutcome
        results == [r.ai_results EXCEPT ![slot] = AnalysisOf(r, k, o)]
    IN  [r EXCEPT
           !.ai_results = results,
           !.pc = IF \E j \in DOMAIN results : results[j] = PendingOutcome
                  THEN "gather"
                  ELSE IF \E j \in DOMAIN results : results[j].ret.raised
                  THEN "returned"
                  ELSE "persist"]

\* Analysis number k of the gather of r finishes with outcome o; when it is
\* the last one, asyncio.gather returns its results in the order of the tasks
\* (line 345).
analysis_done(r, k, o) ==
    LET results == [r.ai_results EXCEPT ![k] = AnalysisOf(r, k, o)]
    IN  [r EXCEPT
           !.ai_results = results,
           !.pc = IF \E j \in DOMAIN results : results[j] = PendingOutcome
                  THEN "gather"
                  ELSE IF \E j \in DOMAIN results : results[j].ret.raised
                  THEN "returned"
                  ELSE "persist"]

\* One round of the loop of lines 353-394, as [run, rows]: the record of the
\* call and the rows of processed_content after it.
process_item(r, outcome) ==
    IF outcome = "commit"
    THEN [run |-> [r EXCEPT !.i = @ + 1, !.processed_count = @ + 1,
                            !.persisted = @ + 1,
                            !.outcomes = Append(@, outcome)],
          rows |-> Append(processed_content, build_processed(r, r.i))]
    ELSE IF outcome = "rollback"
    THEN [run |-> [r EXCEPT !.i = @ + 1, !.failed = @ + 1,
                            !.outcomes = Append(@, outcome)],
          rows |-> processed_content]
    ELSE [run |-> [r EXCEPT !.pc = "returned", !.returned = 0,
                            !.failed = @ + 1,
                            !.outcomes = Append(@, outcome)],
          rows |-> processed_content]

\* process_unprocessed_content(limit) is called: lines 318-350.
RunFetch ==
    /\ analyzer_ready
    /\ run.pc = "idle"
    /\ \E limit \in 1..MaxLimit :
          run' \in fetch_unprocessed([IdleRun EXCEPT !.rerun = hist.ran /\ ~hist.new_items,
                                                     !.prev_clean = hist.prev_clean], limit)
    /\ hist' = [hist EXCEPT !.new_items = FALSE]
    /\ UNCHANGED <<keyVars, scraper, use_ai, analysis, extraVars, raw_content, processed_content>>

\* One of the gathered analyze_with_ai coroutines finishes, with one of the
\* given outcomes.
AnalysisDoneWith(outcomes) ==
    /\ run.pc = "gather"
    /\ \E k \in DOMAIN run.ai_results, o \in outcomes :
          /\ run.ai_results[k] = PendingOutcome
          /\ run' = analysis_done(run, k, o)
    /\ UNCHANGED <<keyVars, scraper, use_ai, analysis, extraVars, raw_content, processed_content, hist>>

AnalysisDone == AnalysisDoneWith(AnalysisOutcomes)

\* ... its models answering with any score
AnalysisDoneAnyScore == AnalysisDoneWith(ScoreOutcomes)

\* One round of the loop of lines 353-394: the row is built, added and
\* committed; or something in the try raises and the handler rolls back and
\* goes on; or the handler itself raises (db.rollback(), the reload of
\* content.id) and the outer except returns 0.
ProcessItem ==
    /\ run.pc = "persist"
    /\ run.i <= Len(run.content_items)
    /\ \E outcome \in {"commit", "rollback", "handler_raises"} :
          /\ run' = process_item(run, outcome).run
          /\ processed_content' = process_item(run, outcome).rows
    /\ UNCHANGED <<keyVars, scraper, use_ai, analysis, extraVars, raw_content, hist>>

\* lines 396-397: the loop is over
RunReturn ==
    /\ run.pc = "persist"
    /\ run.i > Len(run.content_items)
    /\ run' = [run EXCEPT !.pc = "returned", !.returned = run.processed_count]
    /\ UNCHANGED <<keyVars, scraper, use_ai, analysis, extraVars, raw_content, processed_content, hist>>

\* ---- a second call, overlapping the first (another task or process, with a
\* session of its own)
\* The second call is made while the first is between its query and its return.
OverlapFetch ==
    /\ analyzer_ready
    /\ run.pc \in {"gather", "persist"}
    /\ run_b.pc = "idle"
    /\ \E limit \in 1..MaxOverlapLimit : run_b' \in fetch_unprocessed(IdleRun, limit)
    /\ UNCHANGED <<keyVars, scraper, use_ai, analysis, batchVars, analyzer_ready, extract>>

OverlapAnalysisDone ==
    /\ run_b.pc = "gather"
    /\ \E k \in DOMAIN run_b.ai_results, o \in AnalysisOutcomes :
          /\ run_b.ai_results[k] = PendingOutcome
          /\ run_b' = analysis_done(run_b, k, o)
    /\ UNCHANGED <<keyVars, scraper, use_ai, analysis, batchVars, analyzer_ready, extract>>

OverlapProcessItem ==
    /\ run_b.pc = "persist"
    /\ run_b.i <= Len(run_b.content_items)
    /\ \E outcome \in {"commit", "rollback", "handler_raises"} :
          /\ run_b' = process_item(run_b, outcome).run
          /\ processed_content' = process_item(run_b, outcome).rows
    /\ UNCHANGED <<keyVars, scraper, use_ai, analysis, raw_content, run, hist, analyzer_ready, extract>>

OverlapReturn ==
    /\ run_b.pc = "persist"
    /\ run_b.i > Len(run_b.content_items)
    /\ run_b' = [run_b EXCEPT !.pc = "returned", !.returned = run_b.processed_count]
    /\ UNCHANGED <<keyVars, scraper, use_ai, analysis, batchVars, analyzer_ready, extract>>

\* finally: db.close(); the caller has the count
RunClose ==
    /\ run.pc = "returned"
    /\ hist' = [hist EXCEPT !.ran = TRUE,
                            !.prev_clean = /\ run.took_all
                                           /\ run.failed = 0
                                           /\ run.persisted = Len(run.content_items)]
    /\ run' = IdleRun
    /\ UNCHANGED <<keyVars, scraper, use_ai, analysis, extraVars, raw_content, processed_content>>

\* ------------------------------ OpenRouterAPI.extract_json_from_completion

\* The content of a completion is a string of tokens: the fence of three backquotes, the word
\* json, a whitespace character, the JSON texts {} and [], and other text.
Tokens == {"fence", "json", "nl", "{}", "[]", "text"}

Contents == UNION {[1..n -> Tokens] : n \in 0..MaxContent}

\* What chat_completion gives: an exception of _make_request, None, a body
\* without 'choices', with an empty 'choices', with a content of null, or with
\* a content.
NoContent == <<>>
ExtractResponses ==
    {[kind |-> k, content |-> NoContent]
       : k \in {"raised", "None", "no_choices", "empty_choices", "null_content"}}
    \cup {[kind |-> "content", content |-> c] : c \in Contents}

RECURSIVE lstrip(_)
lstrip(c) == IF c # <<>> /\ Head(c) = "nl" THEN lstrip(Tail(c)) ELSE c

RECURSIVE rstrip(_)
rstrip(c) ==
    IF c # <<>> /\ c[Len(c)] = "nl" THEN rstrip(SubSeq(c, 1, Len(c) - 1)) ELSE c

\* str.strip()
strip(c) == rstrip(lstrip(c))

\* re.sub(the pattern ^FENCE json \s*, '', content)
sub_fence_json(c) ==
    IF Len(c) >= 2 /\ c[1] = "fence" /\ c[2] = "json"
    THEN lstrip(SubSeq(c, 3, Len(c)))
    ELSE c

\* re.sub(the pattern \s* FENCE $, '', content); the content was stripped, so the $ that
\* matches before a final newline has no case.
sub_fence_end(c) ==
    IF c # <<>> /\ c[Len(c)] = "fence"
    THEN rstrip(SubSeq(c, 1, Len(c) - 1))
    ELSE c

NoValue == [kind |-> "None", v |-> ""]

\* json.loads inside the try of lines 130-134: the value of a JSON text with
\* whitespace around it, None for anything else.
json_loads(c) ==
    IF strip(c) \in {<<"{}">>, <<"[]">>}
    THEN [kind |-> "value", v |-> strip(c)[1]]
    ELSE NoValue

\* extract_json_from_completion, lines 114-134, for one response of
\* chat_completion.
extract_json(response) ==
    CASE response.kind = "raised" -> [kind |-> "raised", v |-> "exception"]
      [] response.kind \in {"None", "no_choices"} -> NoValue
      [] response.kind = "empty_choices" -> [kind |-> "raised", v |-> "IndexError"]
      [] response.kind = "null_content" -> [kind |-> "raised", v |-> "AttributeError"]
      [] OTHER -> json_loads(sub_fence_end(sub_fence_json(strip(response.content))))

IdleExtract ==
    [pc |-> "idle", response |-> [kind |-> "None", content |-> NoContent], ret |-> NoValue]

\* extract_json_from_completion is called: lines 114-115, up to the await
ExtractStart ==
    /\ extract.pc = "idle"
    /\ extract' = [extract EXCEPT !.pc = "await"]
    /\ UNCHANGED <<keyVars, scraper, use_ai, analysis, batchVars, analyzer_ready, run_b>>

\* chat_completion returns: lines 117-134
ExtractResponse ==
    /\ extract.pc = "await"
    /\ \E response \in ExtractResponses :
          extract' = [pc |-> "done", response |-> response, ret |-> extract_json(response)]
    /\ UNCHANGED <<keyVars, scraper, use_ai, analysis, batchVars, analyzer_ready, run_b>>

\* the caller has the result
ExtractReturn ==
    /\ extract.pc = "done"
    /\ extract' = IdleExtract
    /\ UNCHANGED <<keyVars, scraper, use_ai, analysis, batchVars, analyzer_ready, run_b>>

\* ================================================ TwitterCookieManager

\* A cookie file is the path it has: a file found in the directory at
\* construction, or a file named after the second it was created in
\* (strftime("%Y%m%d_%H%M%S")).
NoFile == [kind |-> "None", id |-> 0]
LoadedFile(k) == [kind |-> "loaded", id |-> k]
CreatedFile(t) == [kind |-> "created", id |-> t]

Range(s) == {s[i] : i \in DOMAIN s}

\* list.remove(x): the first occurrence goes
RemoveFirst(s, x) ==
    LET i == CHOOSE j \in DOMAIN s : s[j] = x /\ \A h \in 1..(j - 1) : s[h] # x
    IN  SubSeq(s, 1, i - 1) \o SubSeq(s, i + 1, Len(s))

\* __init__ and load_available_cookies, lines 15-53, for the files the
\* directory holds, in the order random.shuffle left them
init_cookie_manager(files, t) ==
    [cookie_files |-> files, current_cookie_index |-> 0, last_cookie_switch_time |-> t]

\* get_next_cookie_file, lines 55-78: [raised, ret, cm]. Indexing the list
\* outside its range raises IndexError.
get_next_cookie_file(cm, force_rotate, t) ==
    IF cm.cookie_files = <<>>
    THEN [raised |-> FALSE, ret |-> NoFile, cm |-> cm]
    ELSE LET time_since_last_switch == t - cm.last_cookie_switch_time
             cm1 == IF force_rotate \/ time_since_last_switch >= min_time_between_switches
                    THEN [cm EXCEPT
                            !.current_cookie_index = (@ + 1) % Len(cm.cookie_files),
                            !.last_cookie_switch_time = t]
                    ELSE cm
         IN  IF cm1.current_cookie_index < Len(cm1.cookie_files)
             THEN [raised |-> FALSE,
                   ret |-> cm1.cookie_files[cm1.current_cookie_index + 1],
                   cm |-> cm1]
             ELSE [raised |-> TRUE, ret |-> NoFile, cm |-> cm1]

\* mark_cookie_invalid, lines 94-122; renamed: os.rename did not raise
mark_cookie_invalid(cm, cookie_file, renamed) ==
    IF cookie_file \notin Range(cm.cookie_files) \/ ~renamed
    THEN cm
    ELSE LET files == RemoveFirst(cm.cookie_files, cookie_file)
         IN  [cm EXCEPT
                !.cookie_files = files,
                !.current_cookie_index = IF files = <<>> THEN 0 ELSE @ % Len(files)]

\* What the scraper is left with when mark_cookie_invalid has been called:
\* the file is noted as invalidated when an entry of it was removed.
WithInvalid(sc, cookie_file, renamed) ==
    LET cm == mark_cookie_invalid(sc.cookie_manager, cookie_file, renamed)
    IN  [sc EXCEPT
           !.cookie_manager = cm,
           !.invalidated = IF cm = sc.cookie_manager THEN @ ELSE @ \cup {cookie_file}]

\* self.cookie_files.append(path), line 146 and twitter.py line 67
WithAppended(sc, path) ==
    [sc EXCEPT !.cookie_manager.cookie_files = Append(@, path),
               !.invalidated = @ \ {path}]

NoCookieCall == [op |-> "none", raised |-> FALSE, ret |-> NoFile]

IdleCollect ==
    [pc |-> "idle", retry_with_new_cookie |-> TRUE, requests |-> 0, depth |-> 0,
     cookie_file |-> NoFile, result |-> 0]

NoScraper ==
    [state |-> "none", cookie_manager |-> init_cookie_manager(<<>>, 0),
     invalidated |-> {}, last |-> NoCookieCall, collect |-> IdleCollect]

\* TwitterScraperWithRotation(): the cookie manager loads the directory
ConstructScraper ==
    /\ scraper.state = "none"
    /\ \E n \in 0..MaxLoaded :
       \E order \in {f \in [1..n -> 1..n] : \A i, j \in 1..n : i # j => f[i] # f[j]} :
          scraper' = [NoScraper EXCEPT
                         !.state = "ready",
                         !.cookie_manager =
                             init_cookie_manager([i \in 1..n |-> LoadedFile(order[i])], now)]
    /\ UNCHANGED <<keyVars, analyzerVars>>

GetNextCookieFile ==
    /\ scraper.state = "ready"
    /\ \E force_rotate \in BOOLEAN :
          LET o == get_next_cookie_file(scraper.cookie_manager, force_rotate, now)
          IN  scraper' = [scraper EXCEPT
                             !.cookie_manager = o.cm,
                             !.last = [op |-> "get_next_cookie_file",
                                       raised |-> o.raised, ret |-> o.ret]]
    /\ UNCHANGED <<keyVars, analyzerVars>>

MarkCookieInvalid ==
    /\ scraper.state = "ready"
    /\ \E cookie_file \in Range(scraper.cookie_manager.cookie_files) \cup {CreatedFile(now)},
          renamed \in BOOLEAN :
          scraper' = [WithInvalid(scraper, cookie_file, renamed) EXCEPT
                         !.last = NoCookieCall]
    /\ UNCHANGED <<keyVars, analyzerVars>>

\* add_cookie_file, lines 124-153: the file is written and appended, or
\* writing it raises and nothing is appended
AddCookieFile ==
    /\ scraper.state = "ready"
    /\ Len(scraper.cookie_manager.cookie_files) < MaxCookieFiles
    /\ \E written \in BOOLEAN :
          scraper' = [(IF written THEN WithAppended(scraper, CreatedFile(now)) ELSE scraper)
                         EXCEPT !.last = NoCookieCall]
    /\ UNCHANGED <<keyVars, analyzerVars>>

\* ============================================ TwitterScraperWithRotation

\* login(force_new_login), twitter.py lines 31-73: the scraper it leaves.
\* use_cookie: the file exists and the login with it succeeded; renamed: the
\* file exists, the login with it failed and os.rename did not raise;
\* credentials: the login with the credentials succeeded and left the new file.
login(sc, force_new_login, use_cookie, renamed, credentials, t) ==
    LET o == get_next_cookie_file(sc.cookie_manager, FALSE, t)
        sc1 == [sc EXCEPT !.cookie_manager = o.cm]
        sc2 == IF force_new_login THEN sc
               ELSE IF o.ret = NoFile THEN sc1
               ELSE WithInvalid(sc1, o.ret, renamed)
    IN  IF ~force_new_login /\ o.raised THEN sc1
        ELSE IF ~force_new_login /\ o.ret # NoFile /\ use_cookie THEN sc1
        ELSE IF credentials THEN WithAppended(sc2, CreatedFile(t))
        ELSE sc2

Login ==
    /\ scraper.state = "ready"
    /\ Len(scraper.cookie_manager.cookie_files) < MaxCookieFiles
    /\ \E force_new_login, use_cookie, renamed, credentials \in BOOLEAN :
          scraper' = [login(scraper, force_new_login, use_cookie, renamed, credentials, now)
                         EXCEPT !.last = NoCookieCall]
    /\ UNCHANGED <<keyVars, analyzerVars>>

\* (mutant) the retry may retry again
retry_call_retrying(c) ==
    [c EXCEPT !.pc = "fetch", !.requests = @ + 1, !.depth = @ + 1]

\* line 125: the call of collect_user_tweets(..., retry_with_new_cookie=False),
\* whose value the caller returns; its first step is the request of line 79
retry_call(c) ==
    [c EXCEPT !.pc = "fetch", !.requests = @ + 1, !.depth = @ + 1,
              !.retry_with_new_cookie = FALSE]

\* The handler of lines 109-136, up to its first await, for an exception of
\* the try block whose text has "429" in it or not.
collect_handler(sc, has_429, t) ==
    IF has_429 /\ sc.collect.retry_with_new_cookie
    THEN LET o == get_next_cookie_file(sc.cookie_manager, TRUE, t)
             sc1 == [sc EXCEPT !.cookie_manager = o.cm,
                               !.last = [op |-> "get_next_cookie_file",
                                         raised |-> o.raised, ret |-> o.ret]]
         IN  IF o.raised THEN [sc1 EXCEPT !.collect.pc = "raised"]
             ELSE IF o.ret = NoFile THEN [sc1 EXCEPT !.collect.pc = "sleep"]
             ELSE [sc1 EXCEPT !.collect.pc = "relogin", !.collect.cookie_file = o.ret]
    ELSE IF has_429 THEN [sc EXCEPT !.collect.pc = "sleep", !.last = NoCookieCall]
    ELSE [sc EXCEPT !.collect.pc = "done", !.collect.result = 0, !.last = NoCookieCall]

\* collect_user_tweets is called: line 79, the request is sent
CollectStart ==
    /\ scraper.state = "ready"
    /\ scraper.collect.pc = "idle"
    /\ \E retry \in BOOLEAN :
          scraper' = [scraper EXCEPT
                         !.collect = [IdleCollect EXCEPT !.pc = "fetch", !.requests = 1,
                                                         !.depth = 1,
                                                         !.retry_with_new_cookie = retry],
                         !.last = NoCookieCall]
    /\ UNCHANGED <<keyVars, analyzerVars>>

\* get_user_tweets answers: no tweets (line 83), tweets of which some are
\* saved (lines 85-107), or an exception of the try block (lines 109-136)
FetchResponse ==
    /\ scraper.collect.pc = "fetch"
    /\ \/ \E tweets \in 0..MaxTweets, count \in 0..MaxTweets :
             /\ count <= tweets
             /\ scraper' = [scraper EXCEPT !.collect.pc = "done",
                                           !.collect.result = count,
                                           !.last = NoCookieCall]
       \/ \E has_429 \in BOOLEAN : scraper' = collect_handler(scraper, has_429, now)
    /\ UNCHANGED <<keyVars, analyzerVars>>

\* client.login(cookies_file=cookie_file) of line 121 answers: the retry of
\* line 125, or lines 126-128 and then the sleep of line 134
ReloginResponse ==
    /\ scraper.collect.pc = "relogin"
    /\ \/ /\ scraper.collect.requests < MaxRequests
          /\ scraper' = [scraper EXCEPT !.collect = retry_call(@), !.last = NoCookieCall]
       \/ \E renamed \in BOOLEAN :
             scraper' = [WithInvalid(scraper, scraper.collect.cookie_file, renamed)
                            EXCEPT !.collect.pc = "sleep", !.last = NoCookieCall]
    /\ UNCHANGED <<keyVars, analyzerVars>>

\* asyncio.sleep(900) is over: line 136
Wake ==
    /\ scraper.collect.pc = "sleep"
    /\ scraper' = [scraper EXCEPT !.collect.pc = "done", !.collect.result = 0,
                                  !.last = NoCookieCall]
    /\ UNCHANGED <<keyVars, analyzerVars>>

\* the caller has the count
CollectReturn ==
    /\ scraper.collect.pc = "done"
    /\ scraper' = [scraper EXCEPT !.collect = IdleCollect, !.last = NoCookieCall]
    /\ UNCHANGED <<keyVars, analyzerVars>>

\* ========================================================== specifications

Init ==
    /\ key_manager = NoManager
    /\ now = 0
    /\ call = [c \in Calls |-> IdleCall]
    /\ last_call = NoCall
    /\ last_mark = NoMark
    /\ uses = [c \in Calls |-> EmptyDict]
    /\ scraper = NoScraper
    /\ use_ai = FALSE
    /\ analyzer_ready = FALSE
    /\ run_b = IdleRun
    /\ extract = IdleExtract
    /\ analysis = IdleAnalysis
    /\ raw_content = <<>>
    /\ processed_content = <<>>
    /\ run = IdleRun
    /\ hist = [ran |-> FALSE, new_items |-> FALSE, prev_clean |-> FALSE]

\* The key manager called directly.
NextRotator ==
    \/ Construct
    \/ ConstructFromEnv
    \/ Tick
    \/ GetCurrentKey
    \/ RotateKey
    \/ MarkRateLimited

SpecRotator == Init /\ [][NextRotator]_vars

\* One coroutine at a time on a pool of up to MaxClientPool keys.
NextClient ==
    \/ ConstructClient
    \/ Tick
    \/ Start(1)
    \/ Respond(1)
    \/ Continue(1)
    \/ Finish(1)

SpecClient == Init /\ [][NextClient]_vars

\* One coroutine at a time on a pool of up to MaxPool keys, with the requests
\* of each call counted per key.
NextAttempts ==
    \/ Construct
    \/ Tick
    \/ StartCounted(1)
    \/ Respond(1)
    \/ ContinueCounted(1)
    \/ FinishCounted(1)

SpecAttempts == Init /\ [][NextAttempts]_vars

\* The coroutines of Calls interleaved at their suspension points, on one key
\* manager of up to MaxPool keys.
NextConcurrent ==
    \/ Construct
    \/ Tick
    \/ \E c \in Calls : Start(c) \/ Respond(c) \/ Continue(c) \/ Finish(c)

SpecConcurrent == Init /\ [][NextConcurrent]_vars

\* One analyze_with_ai after another.
NextAnalyze ==
    \/ ConstructAnalyzer
    \/ AnalyzeStart
    \/ \E i \in 1..models_per_analysis : QueryDone(i)
    \/ Aggregate
    \/ AnalyzeReturn

SpecAnalyze == Init /\ [][NextAnalyze]_vars

\* One process_unprocessed_content after another, while rows arrive.
NextBatch ==
    \/ ConstructAnalyzer
    \/ Collect
    \/ RunFetch
    \/ AnalysisDone
    \/ ProcessItem
    \/ RunReturn
    \/ RunClose

SpecBatch == Init /\ [][NextBatch]_vars

\* The batch with models that answer with any score.
NextScores ==
    \/ ConstructAnalyzer
    \/ Collect
    \/ RunFetch
    \/ AnalysisDoneAnyScore
    \/ ProcessItem
    \/ RunReturn
    \/ RunClose

SpecScores == Init /\ [][NextScores]_vars

\* The batch run again and again: the scheduler of app.py calls
\* process_unprocessed_content whenever no call of it is running, and the event
\* loop takes every call that was started to its return. What the database and
\* the models answer is not constrained.
SpecProgress ==
    /\ Init
    /\ [][NextBatch]_vars
    /\ WF_vars(ConstructAnalyzer)
    /\ WF_vars(RunFetch)
    /\ WF_vars(AnalysisDone)
    /\ WF_vars(ProcessItem)
    /\ WF_vars(RunReturn)
    /\ WF_vars(RunClose)

\* Two calls of process_unprocessed_content, each made once, in any interleaving
\* of their database steps.
NextOverlap ==
    \/ ConstructAnalyzer
    \/ Collect
    \/ RunFetch
    \/ AnalysisDone
    \/ ProcessItem
    \/ RunReturn
    \/ OverlapFetch
    \/ OverlapAnalysisDone
    \/ OverlapProcessItem
    \/ OverlapReturn

SpecOverlap == Init /\ [][NextOverlap]_vars

\* One extract_json_from_completion after another.
NextExtract == ExtractStart \/ ExtractResponse \/ ExtractReturn

SpecExtract == Init /\ [][NextExtract]_vars

\* The scraper and its cookie manager. Every request that was sent is answered
\* and every sleep ends: the event loop resumes the coroutine.
NextScraper ==
    \/ ConstructScraper
    \/ Tick
    \/ GetNextCookieFile
    \/ MarkCookieInvalid
    \/ AddCookieFile
    \/ Login
    \/ CollectStart
    \/ FetchResponse
    \/ ReloginResponse
    \/ Wake
    \/ CollectReturn

SpecScraper ==
    /\ Init
    /\ [][NextScraper]_vars
    /\ WF_vars(FetchResponse)
    /\ WF_vars(ReloginResponse)
    /\ WF_vars(Wake)

\* ================================================================== claims

\* ---- C3: _make_request never raises: every call ends by returning a body or
\* None. (Stated as the claim; the code lets the RecursionError of rotate_key
\* escape when the whole pool is cooling down.)
C3_MakeRequestNeverRaises ==
    \A c \in Calls : call[c].pc # "raised"

\* ---- C4: one call of _make_request issues at most min(2 * pool size, 10)
\* requests, and every failed attempt uses up exactly one unit of the budget:
\* the requests issued are the failed attempts counted in retries, plus the one
\* in flight or the one that succeeded.
C4_AttemptBudget ==
    \A c \in Calls :
        LET cr == call[c]
            budget == Min(2 * Len(key_manager.api_keys), 10)
        IN  cr.pc # "idle" =>
              /\ cr.requests <= budget
              /\ cr.pc = "await" => cr.requests = cr.retries + 1
              /\ cr.pc = "loop" => cr.requests = cr.retries
              /\ cr.pc = "raised" => cr.requests \in {cr.retries, cr.retries + 1}
              /\ (cr.pc = "done" /\ cr.result = "body") => cr.requests = cr.retries + 1
              /\ (cr.pc = "done" /\ cr.result = None) =>
                    (cr.requests = budget /\ cr.retries = budget)

\* A call on six keys that used up the whole budget of ten requests.
C4_Witness ==
    \E c \in Calls :
        /\ Len(key_manager.api_keys) = 6
        /\ call[c].pc = "done" /\ call[c].result = None
        /\ call[c].requests = 10

\* ---- C5: with two or more keys, the key returned by rotate_key or
\* get_current_key is not cooling down when it is returned, unless every key of
\* the pool is cooling down.
C5_ReturnedKeyNotCooling ==
    (/\ last_call.op \in {"rotate_key", "get_current_key"}
     /\ ~last_call.raised
     /\ Len(key_manager.api_keys) >= 2)
    => \/ ~InCooldown(key_manager, last_call.ret, now)
       \/ AllInCooldown(key_manager, now)

\* rotate_key returned after skipping a key that is cooling down.
C5_Witness ==
    /\ last_call.op = "rotate_key"
    /\ ~last_call.raised
    /\ Len(key_manager.api_keys) >= 2
    /\ last_call.ret # Head(RotateLeft(last_call.keys_before))
    /\ InCooldown(key_manager, Head(RotateLeft(last_call.keys_before)), now)

\* ---- C6: every call of get_current_key and of rotate_key ends by returning a
\* key of the pool, in every state, the one where all keys cool down included.
\* (Stated as the claim; with the whole pool cooling down the recursion of
\* rotate_key ends in RecursionError.)
C6_RotatorAlwaysReturns ==
    last_call.op \in {"rotate_key", "get_current_key"} =>
        /\ ~last_call.raised
        /\ last_call.ret = key_manager.current_key

\* ---- C7: with exactly one key, rotate_key(reason="rate_limit") returns that
\* key without advancing and leaves it without a cooldown entry.
C7_SingleKeyRateLimit ==
    (/\ last_call.op = "rotate_key"
     /\ last_call.reason = "rate_limit"
     /\ Len(last_call.keys_before) = 1)
    => /\ ~last_call.raised
       /\ last_call.ret = Head(last_call.keys_before)
       /\ key_manager.api_keys = last_call.keys_before
       /\ key_manager.current_key = last_call.ret
       /\ last_call.ret \notin DOMAIN key_manager.rate_limited_keys

\* rotate_key(reason="rate_limit") has just returned on a pool of one key, after
\* time has passed since construction.
C7_Witness ==
    /\ last_call.op = "rotate_key"
    /\ last_call.reason = "rate_limit"
    /\ Len(last_call.keys_before) = 1
    /\ now > 0

\* ---- C8: the key put in cooldown on a rate-limit signal is the key the
\* signalled request was issued under. (Stated as the claim; rotate_key marks
\* self.current_key, which another coroutine may have advanced while the request
\* was in flight.)
C8_CooldownOnOffender ==
    last_mark.marked = last_mark.issued

\* ---------------------------------------------------------------- C1, C2

RecordsOf(id) == {k \in DOMAIN processed_content : processed_content[k].raw_content_id = id}

\* C1: whatever runs of process_unprocessed_content came one after another, and
\* whichever of their commits failed, no row of raw_content has more than one
\* row of processed_content.
C1_AtMostOneRecord ==
    \A id \in DOMAIN raw_content : Cardinality(RecordsOf(id)) <= 1

\* A later run has returned after committing rows, and the table already held
\* rows of an earlier run.
C1_Witness ==
    /\ hist.ran
    /\ run.pc = "returned"
    /\ run.persisted >= 1
    /\ Len(processed_content) > run.persisted

\* C2 as stated: a run that follows another run, with no row added to
\* raw_content in between, commits no row.
C2_RerunPersistsNothing ==
    (run.rerun /\ run.pc \in {"persist", "returned"}) => run.persisted = 0

\* C2, amended: a run that follows a run which fetched every unprocessed row
\* and committed each of them, with no row added to raw_content in between,
\* commits no row.
C2_RerunAfterCleanRunPersistsNothing ==
    (run.rerun /\ run.prev_clean /\ run.pc \in {"persist", "returned"}) => run.persisted = 0

\* Such a run has returned 0 while the table holds the rows of the earlier runs.
C2_Witness ==
    /\ run.rerun
    /\ run.prev_clean
    /\ run.pc = "returned"
    /\ run.returned = 0
    /\ Len(processed_content) >= 1

\* ---------------------------------------------------------------- C9, C10

SuccessfulOf(results) == {i \in DOMAIN results : results[i].status = "success"}

\* the score of results[i] is the r-th smallest of the successful scores
HasRank(results, i, r) ==
    LET succ == SuccessfulOf(results)
        x == results[i].score.v
    IN  /\ Cardinality({j \in succ : results[j].score.v < x}) < r
        /\ r <= Cardinality({j \in succ : results[j].score.v <= x})

\* C9: when at least one model query succeeded, the sentiment analyze_with_ai
\* returns is the median of the scores of the successful queries, and of those
\* only: with n of them, the mean of the scores of rank ceil(n/2) and
\* floor(n/2) + 1.
C9_ConsensusIsMedian ==
    (use_ai /\ analysis.pc = "done" /\ SuccessfulOf(analysis.results) # {}) =>
        LET succ == SuccessfulOf(analysis.results)
            n == Cardinality(succ)
        IN  /\ ~analysis.ret.sentiment.none
            /\ \E lo, hi \in succ :
                  /\ HasRank(analysis.results, lo, (n + 1) \div 2)
                  /\ HasRank(analysis.results, hi, (n \div 2) + 1)
                  /\ 2 * analysis.ret.sentiment.v =
                        analysis.results[lo].score.v + analysis.results[hi].score.v

\* C10: analyze_with_ai raises for no mix of outcomes of its model queries; when
\* none of them succeeded it returns (None, []), and the run goes on to build
\* and commit the row of the item, with the sentiment of analyze_sentiment.
C10_AnalyzeNeverRaises ==
    \A k \in DOMAIN run.ai_results :
        LET o == run.ai_results[k]
            id == run.content_items[k]
        IN  o # PendingOutcome =>
              /\ ~o.ret.raised
              /\ o.valid = 0 => o.ret = Fallback
              /\ (o.valid = 0 /\ run.failed = 0 /\ k < run.i) =>
                    \E j \in DOMAIN processed_content :
                       /\ processed_content[j].raw_content_id = id
                       /\ processed_content[j].sentiment_score =
                             analyze_sentiment(content_of(id))

\* With AI enabled, every model query of an item failed and the run has
\* returned after committing the row of that item.
C10_Witness ==
    /\ use_ai
    /\ run.pc = "returned"
    /\ run.returned >= 1
    /\ \E k \in DOMAIN run.ai_results :
          /\ run.ai_results[k].valid = 0
          /\ run.ai_results[k].ret = Fallback
          /\ RecordsOf(run.content_items[k]) # {}

\* ---------------------------------------------------------- C11, C12, C13

\* C11: when the try of one item of the loop raises, the item gets no row of
\* processed_content, the rows the run committed before it stay, and the loop
\* goes on: the run returns only after it handled every item it fetched.
C11_FailureIsolated ==
    run.pc \in {"persist", "returned"} =>
        \A k \in DOMAIN run.outcomes :
            run.outcomes[k] # "commit" =>
                /\ RecordsOf(run.content_items[k]) = {}
                /\ \A j \in 1..(k - 1) :
                      run.outcomes[j] = "commit" => RecordsOf(run.content_items[j]) # {}
                /\ run.pc = "returned" => Len(run.outcomes) = Len(run.content_items)

\* C12: the value process_unprocessed_content returns is the number of rows
\* the call committed, on every path to a return.
C12_ReturnsCommittedCount ==
    run.pc = "returned" => run.returned = run.persisted

\* C13: the analyses of at most one item are in flight at any moment.
C13_OneItemAtATime ==
    Cardinality({k \in DOMAIN run.ai_results : run.ai_results[k] = PendingOutcome}) <= 1

\* ------------------------------------------------------------------- C14

\* C14: also when two calls of process_unprocessed_content overlap, no row of
\* raw_content has more than one row of processed_content.
C14_UniqueUnderOverlap ==
    \A id \in DOMAIN raw_content :
        Cardinality({k \in DOMAIN processed_content :
                        processed_content[k].raw_content_id = id}) <= 1

\* ------------------------------------------------------------------- C15

\* C15: an item that every answering model rated "not crypto-related" gets no
\* row of processed_content and is not counted.
C15_NotCryptoNotPersisted ==
    \A k \in DOMAIN run.outcomes :
        run.ai_results[k].not_crypto => run.outcomes[k] # "commit"

\* ------------------------------------------------------------------- C16

\* C16: a call handles at most limit rows; every row it handles has language
\* 'en', NULL or 'unknown' and had no row of processed_content when it was
\* fetched (the rows it has now are the ones this call committed); and no row
\* of another language ever has a row of processed_content.
C16_LimitAndEligibility ==
    /\ run.pc # "idle" =>
          /\ Len(run.content_items) <= run.limit
          /\ \A k \in DOMAIN run.content_items :
                /\ raw_content[run.content_items[k]].language \in {"en", "NULL", "unknown"}
                /\ Cardinality(RecordsOf(run.content_items[k])) =
                      IF k \in DOMAIN run.outcomes /\ run.outcomes[k] = "commit"
                      THEN 1 ELSE 0
    /\ \A j \in DOMAIN processed_content :
          raw_content[processed_content[j].raw_content_id].language
              \in {"en", "NULL", "unknown"}

\* A call has returned after committing a row while the table holds a row of
\* another language, which has no row of processed_content.
C16_Witness ==
    /\ run.pc = "returned"
    /\ run.persisted >= 1
    /\ \E id \in DOMAIN raw_content :
          /\ raw_content[id].language = "fr"
          /\ RecordsOf(id) = {}

\* ---------------------------------------------------------- C17, C18, C19

\* The step in which coroutine 1 handles a response of the given kinds.
Handles(kinds) ==
    /\ call[1].pc = "await"
    /\ call'[1].pc # "await"
    /\ last_call'.cause \in kinds

CoolingKeys(km, t) ==
    {k \in DOMAIN km.rate_limited_keys : InCooldown(km, k, t)}

\* C17: the step that handles a 200 response without a 429 code ends the call
\* with that body as its result and leaves the key manager as it was; and from
\* then until the caller has the result no request is issued and the key
\* manager does not change.
C17_StopsAtFirstSuccess ==
    [][/\ Handles({"success"}) =>
             /\ call'[1].pc = "done"
             /\ call'[1].result = "body"
             /\ call'[1].requests = call[1].requests
             /\ call'[1].retries = call[1].retries
             /\ key_manager' = key_manager
       /\ (call[1].pc = "done" /\ call[1].result = "body") =>
             /\ call'[1] \in {call[1], IdleCall}
             /\ key_manager' = key_manager]_vars

\* A call has returned the body of its third request or a later one, on a
\* pool with a key in cooldown.
C17_Witness ==
    /\ call[1].pc = "done"
    /\ call[1].result = "body"
    /\ call[1].requests >= 3
    /\ last_call.cause = "success"
    /\ CoolingKeys(key_manager, now) # {}

\* C18: neither the head of the loop (get_current_key) nor the handling of a
\* generic failure (a status other than 200 without a rate-limit signal, or an
\* exception) puts a key into cooldown that was not in cooldown, and the
\* failure uses up one attempt.
C18_GenericFailureNoCooldown ==
    [][/\ Handles({"error_status", "exception"}) =>
             /\ CoolingKeys(key_manager', now) \subseteq CoolingKeys(key_manager, now)
             /\ \A k \in CoolingKeys(key_manager', now) :
                   key_manager'.rate_limited_keys[k] = key_manager.rate_limited_keys[k]
             /\ call'[1].pc \in {"loop", "raised"}
             /\ call'[1].pc = "loop" => call'[1].retries = call[1].retries + 1
       /\ (call[1].pc \in {"idle", "loop"} /\ call'[1].pc = "await") =>
             CoolingKeys(key_manager', now) \subseteq CoolingKeys(key_manager, now)]_vars

\* A generic failure has been handled on a pool of several keys, one of them
\* in cooldown, and the call goes on.
C18_Witness ==
    /\ call[1].pc = "loop"
    /\ last_call.cause \in {"error_status", "exception"}
    /\ Len(key_manager.api_keys) >= 2
    /\ CoolingKeys(key_manager, now) # {}

\* C19: a response whose body carries code 429 under a status other than 429
\* is never returned: it is handled as rotate_key("rate_limit") handles a
\* rate limit (the key of the request is marked, and on a pool of several keys
\* another key becomes current), and it uses up one attempt.
C19_Embedded429IsRateLimit ==
    [][Handles({"rate_limit_body"}) =>
          /\ call'[1].pc \in {"loop", "raised"}
          /\ call'[1].result # "body"
          /\ \E o \in rotate_in_try(key_manager, "rate_limit", now) :
                key_manager' = o.km /\ (call'[1].pc = "raised") = o.raised
          /\ call'[1].pc = "loop" =>
                /\ call'[1].retries = call[1].retries + 1
                /\ call'[1].requests = call[1].requests
                /\ Len(key_manager.api_keys) >= 2 =>
                      /\ InCooldown(key_manager', call[1].api_key, now)
                      /\ key_manager'.current_key # call[1].api_key]_vars

\* A 200 response with an embedded 429 has been handled: the key of the
\* request is in cooldown, another key is current, the call goes on.
C19_Witness ==
    /\ call[1].pc = "loop"
    /\ last_call.cause = "rate_limit_body"
    /\ InCooldown(key_manager, call[1].api_key, now)
    /\ key_manager.current_key # call[1].api_key

\* ------------------------------------------------------------------- C20

JsonTexts == {<<"{}">>, <<"[]">>}

\* the forms of content the claim lists for a JSON text J
FencedForms(J) ==
    {<<"fence", "json", "nl">> \o J \o <<"nl", "fence">>,
     <<"fence", "nl">> \o J \o <<"nl", "fence">>,
     <<"fence", "json">> \o J \o <<"fence">>,
     <<"fence">> \o J \o <<"fence">>,
     J}

\* C20: for a JSON text J, the content J, J in a fence with the tag json and J in a fence
\* without language tag all give the value of J.
C20_FencedJsonAccepted ==
    (extract.pc = "done" /\ extract.response.kind = "content") =>
        \A J \in JsonTexts :
            extract.response.content \in FencedForms(J) =>
                extract.ret = [kind |-> "value", v |-> J[1]]

\* ------------------------------------------------------------------- C21

\* C21: whenever extract_json_from_completion cannot produce a JSON value
\* (chat_completion returned None, the body has no 'choices', the first choice
\* is missing or has no text content, the content is not JSON after the fences
\* are removed) it returns None and raises nothing.
C21_NoValueIsNoneNotRaise ==
    (extract.pc = "done" /\ extract.response.kind # "raised") =>
        /\ extract.ret.kind # "raised"
        /\ extract.response.kind # "content" => extract.ret = NoValue

\* ------------------------------------------------------------------- C22

\* A JSON object in which "score" or "tags" is missing and the field that is
\* there has the type the prompt asks for.
LacksField(reply) ==
    /\ reply.kind = "json_object"
    /\ reply.score.type \in {"int", "absent"}
    /\ reply.tags.type \in {"list", "absent"}
    /\ reply.score.type = "absent" \/ reply.tags.type = "absent"

C23_AggregatesAfterAllQueries ==
    (use_ai /\ analysis.pc = "done") =>
        /\ \A i \in DOMAIN analysis.models_to_use :
              /\ analysis.results[i].status # "pending"
              /\ analysis.replies[i] # NoReply
              /\ Cardinality({k \in DOMAIN analysis.order : analysis.order[k] = i}) = 1
        /\ Len(analysis.order) = Len(analysis.models_to_use)

\* The query that finished first had succeeded, the other one failed after
\* it, and the call has returned the consensus of the one success.
C23_Witness ==
    /\ analysis.pc = "done"
    /\ Len(analysis.order) = 2
    /\ analysis.results[analysis.order[1]].status = "success"
    /\ analysis.results[analysis.order[2]].status = "exception"
    /\ ~analysis.ret.sentiment.none

\* C24: what the call returns is a function of the models it selected and of
\* the reply each of them gave, the same for every order in which the queries
\* finish: result number i is the result of model number i for its reply, and
\* the consensus is the aggregation of the results in the order of the models.
C24_OrderIndependent ==
    (use_ai /\ analysis.pc = "done") =>
        /\ \A i \in DOMAIN analysis.results :
              /\ analysis.results[i].model = analysis.models_to_use[i]
              /\ analysis.results[i] =
                    query_model(analysis.models_to_use[i], analysis.replies[i])
        /\ analysis.ret =
              guard_aggregate([i \in DOMAIN analysis.replies |->
                                 query_model(analysis.models_to_use[i], analysis.replies[i])])

\* The second model answered before the first, the two list the same tags in
\* opposite orders, and the consensus has the tags in the order of the first
\* model.
C24_Witness ==
    /\ analysis.pc = "done"
    /\ analysis.order = <<2, 1>>
    /\ analysis.replies[1].tags = [type |-> "list", v |-> <<"btc", "eth">>]
    /\ analysis.replies[2].tags = [type |-> "list", v |-> <<"eth", "btc">>]
    /\ analysis.ret.tags = <<"btc", "eth">>

\* ------------------------------------------------------------------- C25

\* C25: the constructor raises ValueError exactly when it is given or finds no
\* key, and then there is no manager (no pool, no current key, no call of it is
\* ever served); a manager that was constructed has at least one key in every
\* state, the keys it was constructed with, and its current key is the head of
\* the pool.
C25_PoolNeverEmpty ==
    /\ key_manager.state # "none" =>
          (key_manager.state = "ValueError") = (key_manager.given = 0)
    /\ key_manager.state = "ValueError" =>
          /\ key_manager.api_keys = <<>>
          /\ key_manager.current_key = NoKey
          /\ last_call = NoCall
    /\ key_manager.state = "ready" =>
          /\ Len(key_manager.api_keys) >= 1
          /\ Len(key_manager.api_keys) = key_manager.given
          /\ {key_manager.api_keys[i] : i \in 1..Len(key_manager.api_keys)}
                = 1..key_manager.given
          /\ key_manager.current_key = Head(key_manager.api_keys)

\* The construction has failed for want of a key.
C25_Witness ==
    /\ key_manager.state = "ValueError"
    /\ key_manager.given = 0

\* ---------------------------------------------------------------- C26, C27

\* C26: every row of processed_content has at most 5 categories, at most 8
\* keywords and at most 5 entities_mentioned.
C26_ListBounds ==
    \A j \in DOMAIN processed_content :
        /\ Len(processed_content[j].categories) <= 5
        /\ Len(processed_content[j].keywords) <= 8
        /\ Len(processed_content[j].entities_mentioned) <= 5

\* C27: no row of processed_content has an empty categories list; the row of an
\* item for which analyze_with_ai gave no tags and whose text matches no
\* category keyword and no entity has the categories ["general"].
C27_CategoriesNeverEmpty ==
    /\ \A j \in DOMAIN processed_content : processed_content[j].categories # <<>>
    /\ \A k \in DOMAIN run.outcomes :
          LET id == run.content_items[k]
          IN  (/\ run.outcomes[k] = "commit"
               /\ run.ai_results[k].ret.tags = <<>>
               /\ content_of(id).topics = {}
               /\ content_of(id).mentions = {}) =>
                  \A j \in RecordsOf(id) :
                      processed_content[j].categories = <<"general">>

\* With AI enabled, a run has returned after committing a row with the
\* categories ["general"], for an item whose model queries gave no tags, and a
\* row with the tags of the models.
C27_Witness ==
    /\ use_ai
    /\ run.pc = "returned"
    /\ \E k \in DOMAIN run.outcomes :
          /\ run.outcomes[k] = "commit"
          /\ run.ai_results[k].ret.tags = <<>>
          /\ \E j \in RecordsOf(run.content_items[k]) :
                processed_content[j].categories = <<"general">>
    /\ \E j \in DOMAIN processed_content : processed_content[j].categories = <<"btc">>

\* ------------------------------------------------------------------- C28

\* The manager after the marking of lines 81-82.
AfterMarking(km, reason, t) ==
    IF reason = "rate_limit" THEN mark_rate_limited(km, km.current_key, t) ELSE km

\* C28: a call of rotate_key(reason) made when, after the marking of the
\* current key for reason "rate_limit", some key of the pool is not cooling
\* down returns, and it has advanced the deque at most len(api_keys) times:
\* the deque it leaves is the one it found shifted by that many places.
C28_RotateTerminates ==
    [][(/\ key_manager.state = "ready"
        /\ last_call'.op = "rotate_key"
        /\ ~AllInCooldown(AfterMarking(key_manager, last_call'.reason, now), now)) =>
           /\ ~last_call'.raised
           /\ last_call'.advances <= Len(key_manager.api_keys)
           /\ key_manager'.api_keys = RotateBy(key_manager.api_keys, last_call'.advances)
           /\ Len(key_manager.api_keys) >= 2 => last_call'.advances >= 1]_vars

\* rotate_key has returned after going round the whole pool: every key but the
\* one it started from is cooling down.
C28_Witness ==
    /\ last_call.op = "rotate_key"
    /\ ~last_call.raised
    /\ Len(key_manager.api_keys) = MaxPool
    /\ last_call.advances = Len(key_manager.api_keys)
    /\ Cardinality(CoolingKeys(key_manager, now)) = Len(key_manager.api_keys) - 1

\* ------------------------------------------------------------------- C29

\* C29: on a pool of two or more keys, the request that follows a failed
\* attempt of a call is issued under another key than the failed attempt was.
\* (Stated as the claim; rotate_key comes back to the key it started from when
\* every other key is cooling down.)
C29_NextAttemptOtherKey ==
    [][(/\ call[1].pc = "loop"
        /\ call'[1].pc = "await"
        /\ Len(key_manager.api_keys) >= 2) =>
           call'[1].api_key # call[1].api_key]_vars

\* ------------------------------------------------------------------- C30

\* C30: one call of _make_request issues at most two requests under any one
\* key. (Stated as the claim; the budget of line 36 counts attempts, not
\* attempts per key, and rotate_key comes back to the same key while the
\* others are cooling down.)
C30_AtMostTwicePerKey ==
    \A c \in Calls : \A key \in DOMAIN uses[c] : uses[c][key] <= retries_per_key

\* ------------------------------------------------------------------- C31

\* The cooldown window over one step of a manager whose pool has at least
\* minPool keys:
\*  - an entry written by the step is the time of the step plus cooldown_seconds;
\*  - a key that is cooling down is still cooling down after the step while the
\*    time has not reached its entry;
\*  - get_current_key on a current key whose entry has expired returns that key;
\*  - rotate_key whose first advance lands on a key whose entry has expired
\*    returns that key and leaves it without an entry.
CooldownWindowStep(minPool) ==
    (/\ key_manager.state = "ready"
     /\ key_manager'.state = "ready"
     /\ Len(key_manager.api_keys) >= minPool) =>
        LET before == key_manager.rate_limited_keys
            after == key_manager'.rate_limited_keys
            landed == Head(RotateLeft(key_manager.api_keys))
            km0 == AfterMarking(key_manager, last_call'.reason, now)
        IN  /\ \A k \in DOMAIN after :
                  (k \notin DOMAIN before \/ after[k] # before[k]) =>
                      after[k] = now + cooldown_seconds
            /\ \A k \in CoolingKeys(key_manager, now) :
                  now' < before[k] => InCooldown(key_manager', k, now')
            /\ (/\ last_call'.op = "get_current_key"
                /\ key_manager.current_key \in DOMAIN before
                /\ now >= before[key_manager.current_key]) =>
                   /\ ~last_call'.raised
                   /\ last_call'.ret = key_manager.current_key
            /\ (/\ last_call'.op = "rotate_key"
                /\ landed \in DOMAIN km0.rate_limited_keys
                /\ now >= km0.rate_limited_keys[landed]) =>
                   /\ ~last_call'.raised
                   /\ last_call'.ret = landed
                   /\ key_manager'.current_key = landed
                   /\ landed \notin DOMAIN after

\* C31 as stated: in every pool, a key marked at time t is in cooldown exactly
\* while now < t + cooldown_seconds; once that time has passed it is selectable
\* again, and a rotate_key that lands on it selects it and removes its entry.
\* (With a single key, rotate_key removes the entry before the time has passed.)
C31_CooldownWindow == [][CooldownWindowStep(1)]_vars

\* C31 for pools of two or more keys: a key marked at time t is in cooldown
\* exactly while now < t + cooldown_seconds; once that time has passed with no
\* new mark it is selectable again without an explicit clear, and a rotate_key
\* that lands on it selects it and removes its entry.
C31_CooldownWindowInPool == [][CooldownWindowStep(2)]_vars

\* rotate_key has landed on a key of a pool of two or more keys whose cooldown
\* was over, returned it and removed its entry.
C31_Witness ==
    /\ last_call.op = "rotate_key"
    /\ ~last_call.raised
    /\ Len(last_call.keys_before) >= 2
    /\ last_call.ret = Head(RotateLeft(last_call.keys_before))
    /\ last_call.cleared
    /\ now >= cooldown_seconds

\* ------------------------------------------------------------------- C32

\* The deque s is the keys 1..n in the order of construction, shifted
\* cyclically by some number of places.
IsCyclicShift(s, n) ==
    /\ Len(s) = n
    /\ \E k \in 0..(n - 1) : \A i \in 1..n : s[i] = ((i - 1 + k) % n) + 1

\* C32: after any sequence of get_current_key, rotate_key(reason) and
\* mark_rate_limited calls the pool holds the keys it was constructed with, in
\* the cyclic order of construction, and current_key is the head of the pool.
C32_PoolIsCyclicShift ==
    key_manager.state = "ready" =>
       /\ IsCyclicShift(key_manager.api_keys, key_manager.given)
       /\ key_manager.current_key = Head(key_manager.api_keys)

\* rotate_key has returned after advancing a full pool twice, skipping a key
\* in cooldown: the pool is no longer in the order of construction.
C32_Witness ==
    /\ last_call.op = "rotate_key"
    /\ ~last_call.raised
    /\ Len(key_manager.api_keys) = MaxPool
    /\ last_call.advances = 2
    /\ key_manager.api_keys # [i \in 1..MaxPool |-> i]
    /\ key_manager.rate_limited_keys # EmptyDict

\* ------------------------------------------------------------------- C33

\* the tags the successful result r reported
ReportedTags(r) == IF r.tags.type = "list" THEN {r.tags.v[k] : k \in DOMAIN r.tags.v} ELSE {}

\* C33: the consensus tags of a call that has returned: when exactly one model
\* succeeded they are the tags it reported; when two or more succeeded, a tag
\* is among them if and only if at least two distinct successful models
\* reported it. (Stated as the claim; tag_counts counts the occurrences of a
\* tag in all_tags, so a tag one model lists twice reaches the threshold.)
C33_ConsensusTags ==
    (use_ai /\ analysis.pc = "done" /\ SuccessfulOf(analysis.results) # {}) =>
        LET succ == SuccessfulOf(analysis.results)
            kept == {analysis.ret.tags[k] : k \in DOMAIN analysis.ret.tags}
            Reporters(tag) == {i \in succ : tag \in ReportedTags(analysis.results[i])}
        IN  IF Cardinality(succ) = 1
            THEN \A i \in succ : kept = ReportedTags(analysis.results[i])
            ELSE \A tag \in Tags : tag \in kept <=> Cardinality(Reporters(tag)) >= 2

\* ------------------------------------------------------------------- C34

\* C34: every row of processed_content has a sentiment_score within [-1, 1]
\* (twentieths) and an impact_score within [0, 1] (hundred-thousandths), for
\* every score a model answers and every engagement_metrics, NULL included.
\* (Stated as the claim; line 150 maps a score above 10 to a sentiment above 1
\* and nothing between it and the row bounds the value.)
C34_ScoresInRange ==
    \A k \in DOMAIN processed_content :
        /\ processed_content[k].sentiment_score >= -20
        /\ processed_content[k].sentiment_score <= 20
        /\ processed_content[k].impact_score >= 0
        /\ processed_content[k].impact_score <= 100000

\* ------------------------------------------------------------------- C35

\* C35: the row a run persists is the row of the item the loop is at: it has
\* the id of that item, it is built from the text of that item and from the
\* analysis that was made of the text of that item, in whatever order the
\* analyses of the run finished, and the rows persisted before stay as they
\* were.
C35_ItemAttribution ==
    [][Len(processed_content') > Len(processed_content) =>
          LET row == processed_content'[Len(processed_content')]
              id == run.content_items[run.i]
              o == run.ai_results[run.i]
              text == content_of(id)
          IN  /\ processed_content' = Append(processed_content, row)
              /\ row.raw_content_id = id
              /\ use_ai => o.item = id
              /\ row.sentiment_score = IF o.ret.sentiment.none
                                       THEN analyze_sentiment(text)
                                       ELSE o.ret.sentiment.v
              /\ row.categories =
                    categorize_content(text, extract_entities_mentioned(text), o.ret.tags)
              /\ row.keywords = extract_keywords(text)
              /\ row.entities_mentioned = extract_entities_mentioned(text)]_vars

\* A run with AI has persisted the rows of two items whose analyses gave
\* different sentiments, each row with the sentiment of its own item.
C35_Witness ==
    /\ use_ai
    /\ run.pc = "persist"
    /\ Len(run.content_items) = 2
    /\ run.i = 3
    /\ run.persisted = 2
    /\ ~run.ai_results[1].ret.sentiment.none
    /\ ~run.ai_results[2].ret.sentiment.none
    /\ run.ai_results[1].ret.sentiment # run.ai_results[2].ret.sentiment
    /\ \A k \in 1..2 : \E j \in DOMAIN processed_content :
          /\ processed_content[j].raw_content_id = run.content_items[k]
          /\ processed_content[j].sentiment_score = run.ai_results[k].ret.sentiment.v

\* ------------------------------------------------------------------- C36

\* The row id is eligible and has no row of processed_content.
AwaitsProcessing(id) == id \in unprocessed_rows(raw_content, processed_content)

\* The running call has just failed to persist the row of item id (rollback,
\* or the handler itself raising).
PersistenceFailedOn(id) ==
    /\ run.outcomes # <<>>
    /\ run.outcomes[Len(run.outcomes)] # "commit"
    /\ run.content_items[Len(run.outcomes)] = id

\* The query of the running call has raised: it returns 0 with nothing fetched.
QueryFailed == run.pc = "returned" /\ run.content_items = <<>>

\* C36: with the batch run again and again (limit >= 1), every eligible row
\* without a processed row comes to have one, unless its own persistence fails
\* (or the query of a run does), whatever happens to the other rows. (Stated as
\* the claim; the query has no ORDER BY and is cut at limit, so a row whose
\* persistence fails on every run can take the place in every fetch.)
C36_EveryHealthyItemProcessed ==
    \A id \in 1..MaxItems :
        AwaitsProcessing(id) ~>
            (HasProcessed(processed_content, id) \/ PersistenceFailedOn(id) \/ QueryFailed)

\* ------------------------------------------------------------------- C37

\* C37: a call of collect_user_tweets sends at most two requests for tweets,
\* the second one by a retry that cannot retry again, nothing it does raises,
\* and the call ends by returning a count.
C37_RetriesAtMostOnce ==
    /\ [](/\ scraper.collect.requests <= 2
          /\ scraper.collect.depth <= 2
          /\ scraper.collect.depth = 2 => ~scraper.collect.retry_with_new_cookie
          /\ scraper.collect.pc # "raised"
          /\ scraper.collect.pc = "done" => scraper.collect.result \in 0..MaxTweets)
    /\ (scraper.collect.pc # "idle") ~> (scraper.collect.pc = "done")

\* The call was answered with a rate-limit error, rotated the cookie, logged
\* in again, sent the request a second time and has returned.
C37_Witness ==
    /\ scraper.collect.pc = "done"
    /\ scraper.collect.requests = 2
    /\ scraper.collect.depth = 2
    /\ scraper.collect.cookie_file # NoFile

\* ------------------------------------------------------------------- C38

\* C38: current_cookie_index is 0 when there is no cookie file and an index
\* of cookie_files otherwise, so that get_next_cookie_file does not raise, and
\* the file it returns is not one that mark_cookie_invalid took out of the
\* rotation. (Stated as the claim; list.remove takes out one entry of a path
\* the list holds twice.)
C38_IndexInRange ==
    LET cm == scraper.cookie_manager
    IN  /\ cm.cookie_files = <<>> => cm.current_cookie_index = 0
        /\ cm.cookie_files # <<>> =>
              /\ 0 <= cm.current_cookie_index
              /\ cm.current_cookie_index < Len(cm.cookie_files)
        /\ scraper.last.op = "get_next_cookie_file" =>
              /\ ~scraper.last.raised
              /\ scraper.last.ret \notin scraper.invalidated

====
